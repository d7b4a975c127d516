---------------------------- MODULE WebhookDelivery ----------------------------
(***************************************************************************)
(* The delivery of webhook events: _webhook_retry_loop, which every server *)
(* process runs, and WebhookDeliveryService.  A process loads the pending  *)
(* events without locking them, sends them one by one inside one database  *)
(* transaction, and commits at the end of the batch: two processes may     *)
(* send the same event, a crash forgets the whole batch, and a process may *)
(* write what it decided on a row that another has written since.          *)
(***************************************************************************)
EXTENDS Integers, FiniteSets

CONSTANTS Events, Configs,         \* ids of webhook_events and webhook_configs
          ConfigOf,                \* the config each event is for
          Workers,                 \* server processes
          WEBHOOK_MAX_RETRIES

ASSUME DeliveryAssumption ==
  /\ ConfigOf \in [Events -> Configs]
  /\ WEBHOOK_MAX_RETRIES \in Nat \ {0}

VARIABLES configs,        \* the configs that exist
          status,         \* committed status of each event; "none", "deleted": no row
          attempt_count,  \* committed count of each event
          worker,         \* what each process is doing
          sends,          \* how often each event was posted, counted up to the limit
          refused         \* the events not sent because their url was unsafe

rows    == <<configs, status, attempt_count>>
history == <<sends, refused>>
vars    == <<rows, worker, history>>

Settled == {"delivered", "failed"}

Idle == [phase |-> "idle"]
Down == [phase |-> "down"]

Busy(w) == worker[w].phase \in {"delivering", "flushing"}

(* batch: the events still to deliver.  event: the objects it loaded, with *)
(* the values it has given them.  dirty: changed but not yet flushed.      *)
(* locked: flushed; their rows stay locked until the transaction ends.     *)
Batch(es) ==
  [phase |-> "delivering", batch |-> es, dirty |-> {}, locked |-> {},
   event |-> [e \in es |-> [status |-> "pending",
                            attempt_count |-> attempt_count[e]]]]

Init == /\ configs = Configs
        /\ status = [e \in Events |-> "none"]
        /\ attempt_count = [e \in Events |-> 0]
        /\ worker = [w \in Workers |-> Idle]
        /\ sends = [e \in Events |-> 0]
        /\ refused = {}

-----------------------------------------------------------------------------
(* Broken variant: the limit is compared with <=. *)
RetryableOnceMore(e) ==
  status[e] = "pending" /\ attempt_count[e] <= WEBHOOK_MAX_RETRIES

(* What deliver_pending selects. *)
Retryable(e) == status[e] = "pending" /\ attempt_count[e] < WEBHOOK_MAX_RETRIES

(* A service adds an event for a config that exists. *)
Enqueue(e) ==
  /\ status[e] = "none" /\ ConfigOf[e] \in configs
  /\ status' = [status EXCEPT ![e] = "pending"]
  /\ UNCHANGED <<configs, attempt_count, worker, history>>

LockedByOther(es, w) == \E v \in Workers \ {w} :
                          Busy(v) /\ worker[v].locked \cap es # {}

EventsOf(c) == {e \in Events : ConfigOf[e] = c /\ status[e] # "none"}

(* WebhookConfigService.delete, or an account purge: the rows of the       *)
(* config's events go with it, once no transaction has them locked.        *)
DeleteConfig(c) ==
  /\ c \in configs
  /\ \A w \in Workers : Busy(w) =>
                          worker[w].locked \cap EventsOf(c) = {}
  /\ configs' = configs \ {c}
  /\ status' = [e \in Events |-> IF e \in EventsOf(c) THEN "deleted" ELSE status[e]]
  /\ UNCHANGED <<attempt_count, worker, history>>

-----------------------------------------------------------------------------
(* The loop wakes up: the SELECT at the head of deliver_pending.           *)
Wake(w) ==
  /\ worker[w] = Idle
  /\ \E e \in Events : Retryable(e)
  /\ worker' = [worker EXCEPT ![w] = Batch({e \in Events : Retryable(e)})]
  /\ UNCHANGED <<rows, history>>

(* The event's config is gone: status is set, nothing is flushed.          *)
Orphaned(w, e) ==
  /\ worker[w].phase = "delivering" /\ e \in worker[w].batch
  /\ ConfigOf[e] \notin configs
  /\ worker' = [worker EXCEPT ![w].batch = @ \ {e},
                              ![w].dirty = @ \union {e},
                              ![w].event[e].status = "failed"]
  /\ UNCHANGED <<rows, history>>

(* "accepted": a 2xx answer.  "rejected": any other answer.  "error": no   *)
(* answer, whether or not the receiver took the event.  "unsafe": the url  *)
(* is refused and nothing is sent.                                         *)
Outcomes == {"accepted", "rejected", "error", "unsafe"}

(* Broken variant: an error on the last attempt but one is final.          *)
StatusAfterEarly(outcome, attempts) ==
  CASE outcome = "accepted" -> "delivered"
    [] outcome = "rejected" -> "pending"
    [] outcome = "error"    -> IF attempts + 1 >= WEBHOOK_MAX_RETRIES
                               THEN "failed" ELSE "pending"
    [] outcome = "unsafe"   -> "failed"

StatusAfter(outcome, attempts) ==
  CASE outcome = "accepted" -> "delivered"
    [] outcome = "rejected" -> "pending"
    [] outcome = "error"    -> IF attempts >= WEBHOOK_MAX_RETRIES
                               THEN "failed" ELSE "pending"
    [] outcome = "unsafe"   -> "failed"

(* Broken variant: an attempt that ends in an error is not counted.        *)
AttemptsAfterUncounted(outcome, attempts) ==
  IF outcome = "error" THEN attempts ELSE attempts + 1

AttemptsAfter(outcome, attempts) == attempts + 1

(* _deliver up to its flush: the event object gets its new values.         *)
Deliver(w, e, outcome) ==
  /\ worker[w].phase = "delivering" /\ e \in worker[w].batch
  /\ ConfigOf[e] \in configs
  /\ LET attempts == AttemptsAfter(outcome, worker[w].event[e].attempt_count)
     IN  worker' = [worker EXCEPT
           ![w].phase = "flushing",
           ![w].batch = @ \ {e},
           ![w].dirty = @ \union {e},
           ![w].event[e] = [status |-> StatusAfter(outcome, attempts),
                            attempt_count |-> attempts]]
  /\ sends' = [sends EXCEPT ![e] =
       IF outcome # "unsafe" /\ @ < WEBHOOK_MAX_RETRIES THEN @ + 1 ELSE @]
  /\ refused' = IF outcome = "unsafe" THEN refused \union {e} ELSE refused
  /\ UNCHANGED rows

Vanished(w) == \E e \in worker[w].dirty : status[e] = "deleted"

Flushed(t) == [t EXCEPT !.phase = "delivering", !.dirty = {},
                        !.locked = @ \union t.dirty]

(* The flush waits for the locks of the rows it updates, and then holds    *)
(* them.                                                                   *)
Flush(w) ==
  /\ worker[w].phase = "flushing"
  /\ ~LockedByOther(worker[w].dirty, w)
  /\ ~Vanished(w)
  /\ worker' = [worker EXCEPT ![w] = Flushed(@)]
  /\ UNCHANGED <<rows, history>>

(* The end of the batch flushes too. *)
AtFlush(w) == \/ worker[w].phase = "flushing"
              \/ worker[w].phase = "delivering" /\ worker[w].batch = {}

(* An UPDATE that matches no row (StaleDataError): the loop logs the error *)
(* and the whole batch is rolled back.                                     *)
StaleData(w) ==
  /\ AtFlush(w)
  /\ Vanished(w)
  /\ worker' = [worker EXCEPT ![w] = Idle]
  /\ UNCHANGED <<rows, history>>

WaitsFor(w, v) == /\ worker[w].phase = "flushing"
                  /\ Busy(v)
                  /\ worker[w].dirty \cap worker[v].locked # {}

(* What becomes of v when the locks it waits for are free. *)
Granted(v, w) ==
  IF Vanished(v) \/ \E u \in Workers \ {v, w} : WaitsFor(v, u)
  THEN worker[v] ELSE Flushed(worker[v])

(* Two batches that hold a row each and want the other's: the database     *)
(* aborts one of them, and its locks go to the one that waits for them.    *)
Deadlock(w, v) ==
  /\ w # v
  /\ WaitsFor(w, v) /\ WaitsFor(v, w)
  /\ worker' = [worker EXCEPT ![w] = Idle, ![v] = Granted(v, w)]
  /\ UNCHANGED <<rows, history>>

(* The process is killed, or the loop is cancelled; it is started again.   *)
Crash(w) ==
  /\ Busy(w)
  /\ worker' = [worker EXCEPT ![w] = Down]
  /\ UNCHANGED <<rows, history>>

Restart(w) ==
  /\ worker[w] = Down
  /\ worker' = [worker EXCEPT ![w] = Idle]
  /\ UNCHANGED <<rows, history>>

(* Broken variant: the commit writes every column of the event. *)
WrittenAllColumns(old, new) == new.status

(* The UPDATE carries a status only if it changed: "pending" is what was   *)
(* loaded.                                                                 *)
Written(old, new) == IF new.status = "pending" THEN old ELSE new.status

Commit(w) ==
  LET t == worker[w]
  IN  /\ t.phase = "delivering" /\ t.batch = {}
      /\ ~Vanished(w)
      /\ status' = [e \in Events |->
           IF e \in t.locked THEN Written(status[e], t.event[e]) ELSE status[e]]
      /\ attempt_count' = [e \in Events |->
           IF e \in t.locked THEN t.event[e].attempt_count ELSE attempt_count[e]]
      /\ worker' = [worker EXCEPT ![w] = Idle]
      /\ UNCHANGED <<configs, history>>

-----------------------------------------------------------------------------
Next ==
  \/ \E e \in Events : Enqueue(e)
  \/ \E c \in Configs : DeleteConfig(c)
  \/ \E w \in Workers :
       \/ Wake(w) \/ Flush(w) \/ Commit(w)
       \/ StaleData(w) \/ Crash(w) \/ Restart(w)
       \/ \E v \in Workers : Deadlock(w, v)
       \/ \E e \in Events : \/ Orphaned(w, e)
                            \/ \E outcome \in Outcomes : Deliver(w, e, outcome)

Advance(w) ==
  \/ Restart(w) \/ Wake(w) \/ Commit(w) \/ StaleData(w)
  \/ \E v \in Workers : Deadlock(w, v)
  \/ \E e \in Events : \/ Orphaned(w, e)
                       \/ \E outcome \in Outcomes : Deliver(w, e, outcome)

(* The loop always wakes up again and a request always ends, by its answer *)
(* or by WEBHOOK_TIMEOUT_SECONDS; the database hands a lock to those that  *)
(* wait for it in turn, and breaks every deadlock.                         *)
Fairness == \A w \in Workers : WF_vars(Advance(w)) /\ SF_vars(Flush(w))

(* A batch that is killed every time gets nowhere: from some time on no    *)
(* process crashes in the middle of one.                                   *)
CrashesEnd == <>[][\A w \in Workers : ~Crash(w)]_vars

Spec     == Init /\ [][Next]_vars
LiveSpec == Spec /\ Fairness /\ CrashesEnd

-----------------------------------------------------------------------------
Counts == 0..WEBHOOK_MAX_RETRIES

BatchOf(es) ==
  [phase : {"delivering", "flushing"}, batch : SUBSET es,
   dirty : SUBSET es, locked : SUBSET es,
   event : [es -> [status : {"pending"} \union Settled, attempt_count : Counts]]]

(* No count ever exceeds WEBHOOK_MAX_RETRIES, in the table or in a batch.  *)
TypeOK ==
  /\ configs \subseteq Configs
  /\ status \in [Events -> {"none", "pending", "deleted"} \union Settled]
  /\ attempt_count \in [Events -> Counts]
  /\ DOMAIN worker = Workers
  /\ \A w \in Workers : worker[w] \notin {Idle, Down} =>
       \E es \in SUBSET Events : worker[w] \in BatchOf(es)
  /\ sends \in [Events -> Counts]
  /\ refused \subseteq Events

(* An event is given up only after WEBHOOK_MAX_RETRIES requests have been  *)
(* made for it, or because its url was unsafe: never because two processes *)
(* counted the same attempt, or because a batch was rolled back.           *)
FailedWasTried ==
  \A e \in Events : status[e] = "failed" =>
                      sends[e] >= WEBHOOK_MAX_RETRIES \/ e \in refused

(* A batch that is still running never puts an event that another process  *)
(* has settled since back in the queue.                                    *)
SettledNeverPending ==
  [][\A e \in Events : status[e] \in Settled => status'[e] # "pending"]_vars

(* The retries end: from some time on no event is selected any more, even  *)
(* though two processes overwrite each other's counts.                     *)
RetriesEnd == <>[](\A e \in Events : ~Retryable(e))
=============================================================================
