------------------------------- MODULE CycleScan -------------------------------
(***************************************************************************)
(* The detection of closed cycles: _cycle_close_scan_loop, which every     *)
(* server process runs, and CycleCloseScanService.  One scan is one        *)
(* transaction with a savepoint for each account; what keeps two processes *)
(* from announcing a cycle twice is the unique key on the notifications.   *)
(* The k-th cycle date of an account is written k.                         *)
(***************************************************************************)
EXTENDS Integers, FiniteSets

CONSTANTS Accounts,
          Workers,     \* server processes
          MaxCycles    \* bound: cycles that close

ASSUME ScanAssumption == MaxCycles \in Nat

Cycles == 1..MaxCycles

VARIABLES faulty,     \* the accounts whose scan raises an exception; never changes
          today,      \* how many cycles have closed
          status,     \* of each account
          config,     \* the webhook that listens to cycle.closed
          notified,   \* committed notification rows of each account
          enqueued,   \* events committed for each account and cycle, ever
          scan        \* what each process is doing

tables == <<notified, enqueued>>
others == <<faulty, today, status, config>>
vars   == <<tables, others, scan>>

(* The statuses the scan tells apart: open or active, paid or closed.      *)
AccountStatuses == {"active", "inactive"}

Idle == [phase |-> "idle"]
Down == [phase |-> "down"]

(* todo: the accounts loaded and not yet scanned.  inserted: the rows of   *)
(* the savepoints released so far.  evented: the accounts among them that  *)
(* got events.  account, dates, listens: the savepoint in progress.        *)
NoRows == [a \in Accounts |-> {}]

Started(as) ==
  [phase |-> "scanning", until |-> today, todo |-> as, inserted |-> NoRows,
   evented |-> {}, account |-> "none", dates |-> {}, listens |-> FALSE]

Busy(w) == scan[w].phase \in {"scanning", "inserting"}

Init == /\ faulty \in SUBSET Accounts
        /\ today = 0
        /\ status = [a \in Accounts |-> "active"]
        /\ config \in {"none", "live"}
        /\ notified = NoRows
        /\ enqueued = [a \in Accounts |-> [c \in Cycles |-> 0]]
        /\ scan = [w \in Workers |-> Idle]

-----------------------------------------------------------------------------
(* The rest of the system.  A row that an uncommitted insert refers to     *)
(* cannot be deleted until that transaction ends.                          *)

CloseCycle == /\ today < MaxCycles
              /\ today' = today + 1
              /\ UNCHANGED <<tables, faulty, status, config, scan>>

(* A payment, its deletion, an import or close_account. *)
ChangeStatus(a) ==
  /\ status' = [status EXCEPT ![a] = IF @ = "active" THEN "inactive" ELSE "active"]
  /\ UNCHANGED <<tables, faulty, today, config, scan>>

(* The webhook listens from the start or never; it can be deleted. *)
DeleteConfig == /\ config = "live"
                /\ \A w \in Workers : Busy(w) => scan[w].evented = {}
                /\ config' = "deleted"
                /\ UNCHANGED <<tables, faulty, today, status, scan>>

-----------------------------------------------------------------------------
Wake(w) ==
  LET open == {a \in Accounts : status[a] = "active"}
  IN  /\ scan[w] = Idle
      /\ open # {}
      /\ scan' = [scan EXCEPT ![w] = Started(open)]
      /\ UNCHANGED <<tables, others>>

(* Broken variant: the date after today is taken for a closed one.         *)
CycleDateAhead(already_notified, until) == (1 .. until + 1) \ already_notified

(* Broken variant: only the newest cycle date is considered. *)
NewestCycleDate(already_notified, until) == ({until} \ {0}) \ already_notified

new_cycle_dates(already_notified, until) == (1..until) \ already_notified

(* _scan_account up to the flush that releases its savepoint. *)
ScanAccount(w, a) ==
  LET dates == new_cycle_dates(notified[a], scan[w].until)
  IN  /\ scan[w].phase = "scanning" /\ a \in scan[w].todo
      /\ a \notin faulty
      /\ scan' = [scan EXCEPT ![w] =
           IF dates = {} THEN [scan[w] EXCEPT !.todo = @ \ {a}]
           ELSE [scan[w] EXCEPT !.phase = "inserting", !.todo = @ \ {a}, !.account = a,
                                !.dates = dates, !.listens = config = "live"]]
      /\ UNCHANGED <<tables, others>>

(* Another process has inserted one of the rows and not yet committed: the *)
(* insert waits for it to end.                                             *)
WaitsFor(w, v) ==
  /\ w # v
  /\ scan[w].phase = "inserting" /\ Busy(v)
  /\ scan[w].dates \cap scan[v].inserted[scan[w].account] # {}

Waits(w) == \E v \in Workers : WaitsFor(w, v)

(* Broken variant: nothing is unique about a notification. *)
ViolatesForeignKeyOnly(w) == scan[w].listens /\ config # "live"

(* The unique key of the notifications, and the foreign key of the         *)
(* events: the config may be gone by now.                                  *)
Violates(w) == \/ scan[w].dates \cap notified[scan[w].account] # {}
               \/ scan[w].listens /\ config # "live"

Insert(w) ==
  LET t == scan[w]
  IN  /\ t.phase = "inserting"
      /\ ~Waits(w) /\ ~Violates(w)
      /\ scan' = [scan EXCEPT ![w] = [t EXCEPT
           !.phase = "scanning",
           !.inserted[t.account] = @ \union t.dates,
           !.evented = IF t.listens THEN @ \union {t.account} ELSE @,
           !.account = "none", !.dates = {}, !.listens = FALSE]]
      /\ UNCHANGED <<tables, others>>

(* Broken variant: no savepoint, an exception undoes the scan. *)
ScanUndone(t, a) == Idle

(* Only the account's savepoint is rolled back. *)
AccountUndone(t, a) ==
  [t EXCEPT !.phase = "scanning", !.todo = @ \ {a},
            !.account = "none", !.dates = {}, !.listens = FALSE]

(* An exception in an account's savepoint is logged and the scan goes on:  *)
(* a faulty account, a row that is no longer allowed, or a deadlock that   *)
(* the database broke.                                                     *)
AccountFails(w) ==
  /\ Busy(w)
  /\ \/ /\ scan[w].phase = "scanning"
        /\ \E a \in scan[w].todo \cap faulty :
             scan' = [scan EXCEPT ![w] = AccountUndone(@, a)]
     \/ /\ scan[w].phase = "inserting"
        /\ \/ ~Waits(w) /\ Violates(w)
           \/ \E v \in Workers : WaitsFor(w, v) /\ WaitsFor(v, w)
        /\ scan' = [scan EXCEPT ![w] = AccountUndone(@, scan[w].account)]
  /\ UNCHANGED <<tables, others>>

Commit(w) ==
  LET t == scan[w]
  IN  /\ t.phase = "scanning" /\ t.todo = {}
      /\ notified' = [a \in Accounts |-> notified[a] \union t.inserted[a]]
      /\ enqueued' = [a \in Accounts |-> [c \in Cycles |->
           IF a \in t.evented /\ c \in t.inserted[a]
           THEN enqueued[a][c] + 1 ELSE enqueued[a][c]]]
      /\ scan' = [scan EXCEPT ![w] = Idle]
      /\ UNCHANGED others

(* The process is killed in the middle of a scan, and started again. *)
Crash(w) == /\ Busy(w)
            /\ scan' = [scan EXCEPT ![w] = Down]
            /\ UNCHANGED <<tables, others>>

Restart(w) == /\ scan[w] = Down
              /\ scan' = [scan EXCEPT ![w] = Idle]
              /\ UNCHANGED <<tables, others>>

-----------------------------------------------------------------------------
Advance(w) == \/ Restart(w) \/ Wake(w) \/ AccountFails(w) \/ Commit(w)
              \/ \E a \in Accounts : ScanAccount(w, a)

Next ==
  \/ CloseCycle \/ DeleteConfig
  \/ \E a \in Accounts : ChangeStatus(a)
  \/ \E w \in Workers : Advance(w) \/ Insert(w) \/ Crash(w)

(* The loop wakes up again for ever; the database hands a key to those     *)
(* that wait for it in turn.                                               *)
Fairness == \A w \in Workers : WF_vars(Advance(w)) /\ SF_vars(Insert(w))

(* From some time on no process is killed in the middle of a scan. *)
CrashesEnd == <>[][\A w \in Workers : ~Crash(w)]_vars

Spec     == Init /\ [][Next]_vars
LiveSpec == Spec /\ Fairness /\ CrashesEnd

-----------------------------------------------------------------------------
Scan ==
  [phase : {"scanning", "inserting"}, until : 0..today, todo : SUBSET Accounts,
   inserted : [Accounts -> SUBSET (1..today)], evented : SUBSET Accounts,
   account : Accounts \union {"none"}, dates : SUBSET (1..today),
   listens : BOOLEAN]

(* Only cycles that have closed are notified or about to be. *)
TypeOK ==
  /\ faulty \subseteq Accounts
  /\ today \in 0..MaxCycles
  /\ status \in [Accounts -> AccountStatuses]
  /\ config \in {"none", "live", "deleted"}
  /\ notified \in [Accounts -> SUBSET (1..today)]
  /\ enqueued \in [Accounts -> [Cycles -> Nat]]
  /\ \A w \in Workers : scan[w] \in {Idle, Down} \/ scan[w] \in Scan

(* What the webhook promises holds of the two scanning processes: the      *)
(* notifications of an account never have a gap, and no cycle gets a       *)
(* second event, after a crash, a race or a savepoint rolled back.         *)
Promise == INSTANCE ClosedCycles WITH
             announced <- [a \in Accounts |-> Cardinality(notified[a])]

KeepsPromise == Promise!Spec

(* The rows of an account are the cycles up to some date: the count that   *)
(* Promise looks at says it all.                                           *)
NoGap == \A a \in Accounts : notified[a] = 1..Cardinality(notified[a])

(* An account in good order that is open gets all its closed cycles        *)
(* announced in the end, after any backlog: neither a faulty account nor   *)
(* the other process starves it.                                           *)
CaughtUp(a) == notified[a] = 1..today

EveryCloseNotified ==
  \A a \in Accounts :
    (a \notin faulty /\ status[a] = "active") ~> (CaughtUp(a) \/ status[a] # "active")
=============================================================================
