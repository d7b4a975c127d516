---------------------------- MODULE CycleScanProofs ----------------------------
(***************************************************************************)
(* Proofs about CycleScan, for any number of accounts, cycles and server   *)
(* processes: notifications have no gap, and the scans keep the promise of *)
(* ClosedCycles.                                                           *)
(***************************************************************************)
EXTENDS CycleScan, FiniteSetTheorems, TLAPS

(* nt stands for notified, td for today, t for a process. *)
Count(nt, a) == Cardinality(nt[a])

ScanOf(td) ==
  [phase : {"scanning", "inserting"}, until : 0..td, todo : SUBSET Accounts,
   inserted : [Accounts -> SUBSET (1..td)], evented : SUBSET Accounts,
   account : Accounts \union {"none"}, dates : SUBSET (1..td), listens : BOOLEAN]

(* The rows a scan has inserted for an account continue the committed ones. *)
Continues(t, a, nt, td) ==
  \/ t.inserted[a] = {}
  \/ \E m \in 1..td : m > Count(nt, a) /\ t.inserted[a] = Count(nt, a) + 1 .. m

(* The rows it is about to insert start where the committed ones ended     *)
(* when it read them, so they overlap those that came since.               *)
StartsWhereRead(t, nt) ==
  /\ t.account \in Accounts \ t.todo /\ t.inserted[t.account] = {}
  /\ \E k \in 0..Count(nt, t.account) : k < t.until /\ t.dates = k + 1 .. t.until

ScanGood(t, nt, td) ==
  /\ t \in ScanOf(td)
  /\ \A a \in t.todo : t.inserted[a] = {}
  /\ \A a \in Accounts : Continues(t, a, nt, td)
  /\ t.phase = "inserting" => StartsWhereRead(t, nt)

WorkerGood(t, nt, td) == t \in {Idle, Down} \/ ScanGood(t, nt, td)

Uncommitted(t, a) == IF t \in {Idle, Down} THEN {} ELSE t.inserted[a]

(* The unique key: two scans never both have rows of one account. *)
KeysExclude ==
  \A v, w \in Workers : \A a \in Accounts :
    v = w \/ Uncommitted(scan[v], a) = {} \/ Uncommitted(scan[w], a) = {}

OthersTyped ==
  /\ faulty \subseteq Accounts
  /\ status \in [Accounts -> AccountStatuses]
  /\ config \in {"none", "live", "deleted"}

(* A cycle without a row has had no event, and none has had two. *)
TablesGood ==
  /\ today \in 0..MaxCycles
  /\ notified \in [Accounts -> SUBSET (1..today)]
  /\ \A a \in Accounts : Count(notified, a) \in 0..today
  /\ NoGap
  /\ enqueued \in [Accounts -> [Cycles -> 0..1]]
  /\ \A a \in Accounts : \A c \in Cycles \ notified[a] : enqueued[a][c] = 0

Inv == /\ OthersTyped
       /\ TablesGood
       /\ DOMAIN scan = Workers
       /\ \A w \in Workers : WorkerGood(scan[w], notified, today)
       /\ KeysExclude

-----------------------------------------------------------------------------
LEMMA UptoCount ==
  ASSUME NEW n \in Nat
  PROVE  Cardinality(1..n) = n
BY FS_Interval

LEMMA Phases ==
  ASSUME NEW t, NEW nt, NEW td
  PROVE  /\ WorkerGood(t, nt, td) /\ t.phase \in {"scanning", "inserting"} =>
              ScanGood(t, nt, td)
         /\ ScanGood(t, nt, td) => t \notin {Idle, Down}
BY DEF WorkerGood, ScanGood, ScanOf, Idle, Down

(* Time goes on. *)
LEMMA LaterGood ==
  ASSUME NEW t, NEW nt, NEW td \in Nat, WorkerGood(t, nt, td)
  PROVE  WorkerGood(t, nt, td + 1)
<1>1. CASE t \in {Idle, Down}
  BY <1>1 DEF WorkerGood
<1>2. CASE ScanGood(t, nt, td)
  <2>1. t \in ScanOf(td + 1)
    BY <1>2 DEF ScanGood, ScanOf
  <2>2. \A a \in Accounts : Continues(t, a, nt, td + 1)
    BY <1>2 DEF ScanGood, Continues
  <2> QED
    BY <1>2, <2>1, <2>2 DEF ScanGood, WorkerGood
<1> QED
  BY <1>1, <1>2 DEF WorkerGood

(* What other processes commit leaves a scan good, as long as they have    *)
(* rows of accounts only that it has none of.                              *)
LEMMA OthersCommit ==
  ASSUME NEW t, NEW nt, NEW nt2, NEW td \in Nat, WorkerGood(t, nt, td),
         \A a \in Accounts : /\ Count(nt, a) \in Nat /\ Count(nt2, a) \in Nat
                             /\ Count(nt, a) <= Count(nt2, a)
                             /\ Uncommitted(t, a) # {} => nt2[a] = nt[a]
  PROVE  WorkerGood(t, nt2, td)
<1>1. CASE t \in {Idle, Down}
  BY <1>1 DEF WorkerGood
<1>2. CASE ScanGood(t, nt, td)
  <2>1. \A a \in Accounts : Continues(t, a, nt2, td)
    BY <1>2, Phases DEF ScanGood, Continues, Uncommitted, Count
  <2>2. ASSUME StartsWhereRead(t, nt)
        PROVE  StartsWhereRead(t, nt2)
    <3>1. PICK k \in 0..Count(nt, t.account) : k < t.until /\ t.dates = k + 1 .. t.until
      BY <2>2 DEF StartsWhereRead
    <3>2. k \in 0..Count(nt2, t.account)
      BY <2>2, <3>1 DEF StartsWhereRead
    <3> QED
      BY <2>2, <3>1, <3>2 DEF StartsWhereRead
  <2> QED
    BY <1>2, <2>1, <2>2 DEF ScanGood, WorkerGood
<1> QED
  BY <1>1, <1>2 DEF WorkerGood

(* A process takes a step that commits nothing and adds no row but of an   *)
(* account the others have none of.                                        *)
LEMMA OwnStep ==
  ASSUME Inv, NEW w \in Workers, NEW t, scan' = [scan EXCEPT ![w] = t],
         WorkerGood(t, notified, today), UNCHANGED <<tables, others>>,
         \A v \in Workers \ {w} : \A a \in Accounts :
           Uncommitted(t, a) = Uncommitted(scan[w], a) \/ Uncommitted(t, a) = {}
             \/ Uncommitted(scan[v], a) = {}
  PROVE  Inv'
<1>1. /\ DOMAIN scan' = Workers /\ scan'[w] = t
      /\ \A v \in Workers \ {w} : scan'[v] = scan[v]
  BY DEF Inv
<1>2. OthersTyped' /\ TablesGood' /\ notified' = notified /\ today' = today
  BY DEF Inv, OthersTyped, TablesGood, NoGap, Count, tables, others
<1>3. KeysExclude'
  BY <1>1 DEF Inv, KeysExclude
<1> QED
  BY <1>1, <1>2, <1>3 DEF Inv

LEMMA StopStep ==
  ASSUME Inv, NEW w \in Workers, NEW t \in {Idle, Down}, scan' = [scan EXCEPT ![w] = t],
         UNCHANGED <<tables, others>>
  PROVE  Inv'
<1>1. WorkerGood(t, notified, today) /\ \A a \in Accounts : Uncommitted(t, a) = {}
  BY DEF WorkerGood, Uncommitted
<1> QED
  BY <1>1, OwnStep

LEMMA WakeStep ==
  ASSUME Inv, NEW w \in Workers, Wake(w)
  PROVE  Inv'
<1> DEFINE E == {a \in Accounts : status[a] = "active"}
           t == Started(E)
<1>1. scan' = [scan EXCEPT ![w] = t] /\ UNCHANGED <<tables, others>>
  BY DEF Wake
<1>2. today \in Nat
  BY ScanAssumption DEF Inv, TablesGood
<1>3. t \in ScanOf(today) /\ t.phase = "scanning" /\ \A a \in Accounts : t.inserted[a] = {}
  BY <1>2 DEF Started, ScanOf, NoRows
<1> HIDE DEF t
<1>4. ScanGood(t, notified, today)
  BY <1>3 DEF ScanGood, Continues, ScanOf
<1>5. \A a \in Accounts : Uncommitted(t, a) = {}
  BY <1>3 DEF Uncommitted
<1> QED
  BY <1>1, <1>4, <1>5, OwnStep DEF WorkerGood

(* The query of an account: what it is to insert starts after the rows     *)
(* that are there.                                                         *)
LEMMA ScanAccountStep ==
  ASSUME Inv, NEW w \in Workers, NEW a \in Accounts, ScanAccount(w, a)
  PROVE  Inv'
<1> DEFINE s == scan[w]
           n == Count(notified, a)
           d == new_cycle_dates(notified[a], s.until)
           skip == [s EXCEPT !.todo = s.todo \ {a}]
           go == [s EXCEPT !.phase = "inserting", !.todo = s.todo \ {a}, !.account = a,
                           !.dates = d, !.listens = config = "live"]
<1>1. /\ s.phase = "scanning" /\ a \in s.todo /\ UNCHANGED <<tables, others>>
      /\ scan' = [scan EXCEPT ![w] = IF d = {} THEN skip ELSE go]
  BY DEF ScanAccount
<1>2. ScanGood(s, notified, today)
  BY <1>1, Phases DEF Inv
<1>3. n \in 0..today /\ notified[a] = 1..n /\ today \in Nat
  BY ScanAssumption DEF Inv, TablesGood, NoGap, Count
<1>4. s \in ScanOf(today) /\ s.inserted[a] = {} /\ s.until \in 0..today
  BY <1>1, <1>2 DEF ScanGood, ScanOf
<1>5. d = n + 1 .. s.until /\ d \subseteq 1..today
  BY <1>3, <1>4 DEF new_cycle_dates
<1> HIDE DEF s, n, d
<1>6. /\ skip \in ScanOf(today) /\ skip.inserted = s.inserted /\ skip.phase = "scanning"
      /\ skip.todo = s.todo \ {a}
  BY <1>1, <1>4 DEF ScanOf
<1>7. /\ go \in ScanOf(today) /\ go.inserted = s.inserted /\ go.phase = "inserting"
      /\ go.todo = s.todo \ {a} /\ go.account = a /\ go.dates = d /\ go.until = s.until
  BY <1>1, <1>4, <1>5 DEF ScanOf
<1> HIDE DEF skip, go
<1>8. CASE d = {}
  <2>1. ScanGood(skip, notified, today)
    BY <1>2, <1>6 DEF ScanGood, Continues
  <2>2. \A b \in Accounts : Uncommitted(skip, b) = Uncommitted(scan[w], b)
    BY <1>2, <1>6, <2>1, Phases DEF Uncommitted, s
  <2>3. scan' = [scan EXCEPT ![w] = skip]
    BY <1>1, <1>8
  <2> QED
    BY <1>1, <2>1, <2>2, <2>3, OwnStep DEF WorkerGood
<1>9. CASE d # {}
  <2>1. n < s.until
    BY <1>3, <1>4, <1>5, <1>9
  <2>2. StartsWhereRead(go, notified)
    BY <1>3, <1>4, <1>5, <1>7, <2>1 DEF StartsWhereRead, n
  <2>3. ScanGood(go, notified, today)
    BY <1>2, <1>7, <2>2 DEF ScanGood, Continues
  <2>4. \A b \in Accounts : Uncommitted(go, b) = Uncommitted(scan[w], b)
    BY <1>2, <1>7, <2>3, Phases DEF Uncommitted, s
  <2>5. scan' = [scan EXCEPT ![w] = go]
    BY <1>1, <1>9
  <2> QED
    BY <1>1, <2>3, <2>4, <2>5, OwnStep DEF WorkerGood
<1> QED
  BY <1>8, <1>9

(* The insert succeeds only if the rows it was to add are still the next   *)
(* ones, and nobody else has one of that account.                          *)
LEMMA InsertStep ==
  ASSUME Inv, NEW w \in Workers, Insert(w)
  PROVE  Inv'
<1> DEFINE s == scan[w]
           b == s.account
           n == Count(notified, b)
           e == IF s.listens THEN s.evented \union {s.account} ELSE s.evented
           t == [s EXCEPT !.phase = "scanning",
                          !.inserted[s.account] = s.inserted[s.account] \union s.dates,
                          !.evented = e,
                          !.account = "none", !.dates = {}, !.listens = FALSE]
<1>1. /\ s.phase = "inserting" /\ ~Waits(w) /\ ~Violates(w)
      /\ scan' = [scan EXCEPT ![w] = t] /\ UNCHANGED <<tables, others>>
  BY DEF Insert
<1>2. ScanGood(s, notified, today)
  BY <1>1, Phases DEF Inv
<1>3. s \in ScanOf(today) /\ b \in Accounts \ s.todo /\ s.inserted[b] = {} /\ s.until \in 0..today
  BY <1>1, <1>2 DEF ScanGood, StartsWhereRead, ScanOf
<1>4. n \in 0..today /\ notified[b] = 1..n /\ today \in Nat
  BY <1>3, ScanAssumption DEF Inv, TablesGood, NoGap, Count
<1>5. PICK k \in 0..n : k < s.until /\ s.dates = k + 1 .. s.until
  BY <1>1, <1>2 DEF ScanGood, StartsWhereRead
<1>6. s.dates = n + 1 .. s.until /\ n < s.until
  <2>1. s.dates \cap notified[b] = {}
    BY <1>1 DEF Violates
  <2>2. k + 1 \in s.dates
    BY <1>3, <1>4, <1>5
  <2> QED
    BY <1>3, <1>4, <1>5, <2>1, <2>2
<1>7. \A v \in Workers \ {w} : Uncommitted(scan[v], b) = {}
  <2> SUFFICES ASSUME NEW v \in Workers \ {w}, Uncommitted(scan[v], b) # {}
               PROVE  FALSE
    OBVIOUS
  <2>1. ScanGood(scan[v], notified, today) /\ scan[v].inserted[b] # {}
    BY DEF Inv, WorkerGood, Uncommitted
  <2>2. Busy(v)
    BY <2>1 DEF ScanGood, ScanOf, Busy
  <2>3. n + 1 \in scan[v].inserted[b]
    BY <1>3, <1>4, <2>1 DEF ScanGood, Continues
  <2>4. n + 1 \in s.dates
    BY <1>3, <1>4, <1>6
  <2> QED
    BY <1>1, <2>2, <2>3, <2>4 DEF Waits, WaitsFor
<1> HIDE DEF s, n
<1>8. e \in SUBSET Accounts
  BY <1>3 DEF ScanOf
<1> HIDE DEF e
<1>9. /\ t \in ScanOf(today) /\ t.phase = "scanning" /\ t.todo = s.todo
      /\ t.inserted[b] = s.dates
      /\ \A a \in Accounts \ {b} : t.inserted[a] = s.inserted[a]
  <2>1. s.inserted[b] \union s.dates \in SUBSET (1..today)
    BY <1>3, <1>4, <1>6
  <2> QED
    BY <1>3, <1>8, <2>1 DEF ScanOf
<1> HIDE DEF t
<1>10. Continues(t, b, notified, today)
  BY <1>3, <1>4, <1>6, <1>9 DEF Continues, n
<1>11. ScanGood(t, notified, today)
  <2>1. \A a \in Accounts : Continues(t, a, notified, today)
    BY <1>2, <1>9, <1>10 DEF ScanGood, Continues
  <2>2. \A a \in t.todo : t.inserted[a] = {}
    BY <1>2, <1>3, <1>9 DEF ScanGood, ScanOf
  <2> QED
    BY <1>9, <2>1, <2>2 DEF ScanGood
<1>12. \A a \in Accounts \ {b} : Uncommitted(t, a) = Uncommitted(scan[w], a)
  BY <1>2, <1>9, <1>11, Phases DEF Uncommitted, s
<1>13. \A v \in Workers \ {w} : \A a \in Accounts :
         \/ Uncommitted(t, a) = Uncommitted(scan[w], a) \/ Uncommitted(t, a) = {}
         \/ Uncommitted(scan[v], a) = {}
  BY <1>7, <1>12
<1> HIDE DEF b
<1> QED
  BY ZenonT(30), <1>1, <1>11, <1>13, OwnStep DEF WorkerGood

LEMMA AccountFailsStep ==
  ASSUME Inv, NEW w \in Workers, AccountFails(w)
  PROVE  Inv'
<1> DEFINE s == scan[w]
<1>1. PICK a : /\ scan' = [scan EXCEPT ![w] = AccountUndone(s, a)]
               /\ s.phase \in {"scanning", "inserting"} /\ UNCHANGED <<tables, others>>
  BY DEF AccountFails, Busy
<1> DEFINE t == AccountUndone(s, a)
<1>2. ScanGood(s, notified, today)
  BY <1>1, Phases DEF Inv
<1> HIDE DEF s
<1>3. t \in ScanOf(today) /\ t.phase = "scanning" /\ t.todo = s.todo \ {a}
      /\ t.inserted = s.inserted
  BY <1>2 DEF ScanGood, ScanOf, AccountUndone
<1> HIDE DEF t
<1>4. ScanGood(t, notified, today)
  BY <1>2, <1>3 DEF ScanGood, Continues
<1>5. \A b \in Accounts : Uncommitted(t, b) = Uncommitted(scan[w], b)
  BY <1>2, <1>3, <1>4, Phases DEF Uncommitted, s
<1>6. scan' = [scan EXCEPT ![w] = t] /\ UNCHANGED <<tables, others>>
  BY <1>1 DEF t
<1>7. WorkerGood(t, notified, today)
  BY <1>4 DEF WorkerGood
<1> QED
  BY <1>5, <1>6, <1>7, OwnStep

(* What a commit adds to the rows of an account, and to the count of them. *)
LEMMA CommitAdds ==
  ASSUME Inv, NEW w \in Workers, Commit(w), NEW a \in Accounts
  PROVE  /\ scan[w].inserted[a] \in SUBSET (1..today)
         /\ Uncommitted(scan[w], a) = scan[w].inserted[a]
         /\ scan[w].inserted[a] \cap notified[a] = {}
         /\ notified'[a] = notified[a] \union scan[w].inserted[a]
         /\ Count(notified', a) \in Count(notified, a)..today
         /\ notified'[a] = 1..Count(notified', a)
         /\ scan[w].inserted[a] = Count(notified, a) + 1 .. Count(notified', a)
<1> DEFINE s == scan[w]
           n == Count(notified, a)
<1>1. ScanGood(s, notified, today)
  BY Phases DEF Inv, Commit
<1>2. n \in 0..today /\ notified[a] = 1..n /\ today \in Nat
  BY ScanAssumption DEF Inv, TablesGood, NoGap, Count
<1>3. notified'[a] = notified[a] \union s.inserted[a]
  BY DEF Commit
<1>4. s.inserted[a] \in SUBSET (1..today) /\ Uncommitted(s, a) = s.inserted[a]
  BY <1>1, Phases DEF ScanGood, ScanOf, Uncommitted
<1>5. PICK m \in n..today : s.inserted[a] = n + 1 .. m
  <2>1. CASE s.inserted[a] = {}
    BY <1>2, <2>1
  <2>2. CASE s.inserted[a] # {}
    BY <1>1, <1>2, <2>2 DEF ScanGood, Continues
  <2> QED
    BY <2>1, <2>2
<1> HIDE DEF s, n
<1>6. notified'[a] = 1..m
  BY <1>2, <1>3, <1>5
<1>7. Count(notified', a) = m
  BY <1>2, <1>5, <1>6, UptoCount DEF Count
<1> QED
  BY <1>2, <1>3, <1>4, <1>5, <1>6, <1>7 DEF s, n

LEMMA CommitStep ==
  ASSUME Inv, NEW w \in Workers, Commit(w)
  PROVE  Inv'
<1> DEFINE s == scan[w]
<1>1. /\ notified' = [a \in Accounts |-> notified[a] \union s.inserted[a]]
      /\ enqueued' = [a \in Accounts |-> [c \in Cycles |->
           IF a \in s.evented /\ c \in s.inserted[a]
           THEN enqueued[a][c] + 1 ELSE enqueued[a][c]]]
      /\ scan' = [scan EXCEPT ![w] = Idle] /\ UNCHANGED others
  BY DEF Commit
<1>2. OthersTyped' /\ today' = today /\ today \in Nat
  BY <1>1, ScanAssumption DEF Inv, OthersTyped, TablesGood, others
<1>3. \A a \in Accounts : Count(notified, a) \in 0..today
  BY DEF Inv, TablesGood
<1>4. notified' \in [Accounts -> SUBSET (1..today)]
  <2>1. \A a \in Accounts : notified[a] \in SUBSET (1..today)
    BY DEF Inv, TablesGood
  <2> QED
    BY <1>1, <2>1, CommitAdds
<1>5. NoGap' /\ \A a \in Accounts : Count(notified', a) \in 0..today
  BY <1>2, <1>3, CommitAdds DEF NoGap, Count
<1>6. /\ enqueued' \in [Accounts -> [Cycles -> 0..1]]
      /\ \A a \in Accounts : \A c \in Cycles \ notified'[a] : enqueued'[a][c] = 0
  <2>1. ASSUME NEW a \in Accounts, NEW c \in Cycles
        PROVE  /\ enqueued'[a][c] \in 0..1
               /\ c \notin notified'[a] => enqueued'[a][c] = 0
    <3>1. enqueued[a][c] \in 0..1 /\ (c \notin notified[a] => enqueued[a][c] = 0)
      BY DEF Inv, TablesGood
    <3>2. CASE a \in s.evented /\ c \in s.inserted[a]
      <4>1. c \notin notified[a] /\ c \in notified'[a]
        BY <3>2, CommitAdds
      <4> QED
        BY <1>1, <3>1, <3>2, <4>1
    <3>3. CASE ~(a \in s.evented /\ c \in s.inserted[a])
      BY <1>1, <3>1, <3>3, CommitAdds
    <3> QED
      BY <3>2, <3>3
  <2>2. /\ DOMAIN enqueued' = Accounts
        /\ \A a \in Accounts : enqueued'[a] = [c \in Cycles |-> enqueued'[a][c]]
    BY <1>1
  <2>3. \A a \in Accounts : enqueued'[a] \in [Cycles -> 0..1]
    BY <2>1, <2>2
  <2>4. enqueued' = [a \in Accounts |-> enqueued'[a]]
    BY <1>1
  <2> QED
    BY <2>1, <2>3, <2>4
<1>7. ASSUME NEW v \in Workers
      PROVE  WorkerGood(scan'[v], notified', today)
  <2>1. CASE v = w
    BY <1>1, <2>1 DEF Inv, WorkerGood
  <2>2. CASE v # w
    <3>1. scan'[v] = scan[v] /\ WorkerGood(scan[v], notified, today)
      BY <1>1, <2>2 DEF Inv
    <3>2. ASSUME NEW a \in Accounts
          PROVE  /\ Count(notified, a) \in Nat /\ Count(notified', a) \in Nat
                 /\ Count(notified, a) <= Count(notified', a)
                 /\ Uncommitted(scan[v], a) # {} => notified'[a] = notified[a]
      <4>1. Uncommitted(scan[v], a) = {} \/ Uncommitted(s, a) = {}
        BY <2>2 DEF Inv, KeysExclude
      <4>2. Uncommitted(s, a) = {} => notified'[a] = notified[a]
        <5>1. /\ Uncommitted(s, a) = s.inserted[a]
              /\ notified'[a] = notified[a] \union s.inserted[a]
          BY CommitAdds
        <5> QED
          BY <5>1
      <4>3. Count(notified', a) \in Count(notified, a)..today
        BY CommitAdds
      <4> QED
        BY <1>2, <1>3, <4>1, <4>2, <4>3
    <3> QED
      BY <1>2, <3>1, <3>2, OthersCommit
  <2> QED
    BY <2>1, <2>2
<1>8. KeysExclude' /\ DOMAIN scan' = Workers
  BY <1>1 DEF Inv, KeysExclude, Uncommitted
<1> QED
  BY <1>2, <1>4, <1>5, <1>6, <1>7, <1>8 DEF Inv, TablesGood

LEMMA CloseCycleStep ==
  ASSUME Inv, CloseCycle
  PROVE  Inv'
<1>1. /\ today \in 0..MaxCycles /\ today' = today + 1 /\ today' \in 0..MaxCycles
      /\ UNCHANGED <<notified, enqueued, faulty, status, config, scan>>
  BY ScanAssumption DEF CloseCycle, Inv, TablesGood, tables
<1>2. TablesGood'
  <2>1. \A a \in Accounts : Count(notified, a) \in 0..(today + 1)
    BY <1>1, ScanAssumption DEF Inv, TablesGood
  <2>2. notified \in [Accounts -> SUBSET (1..(today + 1))]
    BY <1>1, ScanAssumption DEF Inv, TablesGood
  <2>3. NoGap' /\ \A a \in Accounts : Count(notified', a) = Count(notified, a)
    BY <1>1 DEF Inv, TablesGood, NoGap, Count
  <2> QED
    BY <1>1, <2>1, <2>2, <2>3 DEF Inv, TablesGood
<1>3. \A w \in Workers : WorkerGood(scan[w], notified, today + 1)
  BY <1>1, ScanAssumption, LaterGood DEF Inv
<1>4. OthersTyped' /\ KeysExclude'
  BY <1>1 DEF Inv, OthersTyped, KeysExclude
<1> QED
  BY <1>1, <1>2, <1>3, <1>4 DEF Inv

LEMMA SurroundingsStep ==
  ASSUME Inv, DeleteConfig \/ \E a \in Accounts : ChangeStatus(a)
  PROVE  Inv'
<1>1. OthersTyped' /\ UNCHANGED <<today, notified, enqueued, scan>>
  BY DEF DeleteConfig, ChangeStatus, Inv, OthersTyped, AccountStatuses, tables
<1> QED
  BY <1>1 DEF Inv, TablesGood, NoGap, Count, KeysExclude

-----------------------------------------------------------------------------
(* The abstract steps. *)

LEMMA InitInv == Init => Inv /\ Promise!Init
<1> SUFFICES ASSUME Init PROVE Inv /\ Promise!Init
  OBVIOUS
<1>1. \A a \in Accounts : Count(notified, a) = 0
  BY FS_EmptySet DEF Init, NoRows, Count
<1>2. TablesGood
  BY <1>1, ScanAssumption DEF Init, NoRows, TablesGood, NoGap, Count
<1>3. OthersTyped /\ DOMAIN scan = Workers
  BY DEF Init, OthersTyped, AccountStatuses
<1>4. KeysExclude /\ \A w \in Workers : WorkerGood(scan[w], notified, today)
  BY DEF Init, KeysExclude, Uncommitted, WorkerGood
<1>5. Promise!Init
  BY <1>1 DEF Init, Promise!Init, Promise!Cycles, Cycles, Count
<1> QED
  BY <1>2, <1>3, <1>4, <1>5 DEF Inv

LEMMA StepInv == Inv /\ [Next]_vars => Inv'
<1> SUFFICES ASSUME Inv, [Next]_vars PROVE Inv'
  OBVIOUS
<1>1. ASSUME NEW w \in Workers, Crash(w) \/ Restart(w) PROVE Inv'
  BY <1>1, StopStep DEF Crash, Restart
<1>2. CASE UNCHANGED vars
  BY <1>2 DEF vars, tables, others, Inv, OthersTyped, TablesGood, NoGap, Count, KeysExclude
<1> QED
  BY <1>1, <1>2, CloseCycleStep, SurroundingsStep, WakeStep, ScanAccountStep, InsertStep,
     AccountFailsStep, CommitStep DEF Next, Advance

(* A commit announces what it inserted; nothing else announces. *)
LEMMA CommitAnnounces ==
  ASSUME Inv, NEW w \in Workers, Commit(w)
  PROVE  Promise!Announce
<1> DEFINE A == [a \in Accounts |-> Cardinality(notified[a])]
<1>1. today' = today
  BY DEF Commit, others
<1>2. \A a \in Accounts : /\ Count(notified, a) \in 0..today /\ today \in Nat
                          /\ Count(notified', a) \in Count(notified, a)..today
  BY CommitAdds, ScanAssumption DEF Inv, TablesGood
<1>3. A' \in [Accounts -> 0..today] /\ \A a \in Accounts : A'[a] >= A[a]
  BY <1>2 DEF Count
<1>4. enqueued' \in [Accounts -> [Cycles -> 0..1]]
  BY <1>1, CommitStep DEF Inv, TablesGood
<1>5. ASSUME NEW a \in Accounts, NEW c \in Cycles, c \notin A[a] + 1 .. A'[a]
      PROVE  enqueued'[a][c] = enqueued[a][c]
  <2>1. c \notin scan[w].inserted[a]
    BY <1>5, CommitAdds DEF Count
  <2> QED
    BY <2>1 DEF Commit
<1> QED
  BY <1>1, <1>3, <1>4, <1>5 DEF Promise!Announce, Promise!Cycles, Cycles

LEMMA StepSimulates == Inv /\ [Next]_vars => [Promise!Next]_(Promise!vars)
<1> SUFFICES ASSUME Inv, [Next]_vars PROVE [Promise!Next]_(Promise!vars)
  OBVIOUS
<1>1. ASSUME CloseCycle PROVE Promise!CloseCycle
  <2>1. today \in 0..MaxCycles /\ today' = today + 1 /\ today < MaxCycles
        /\ UNCHANGED <<notified, enqueued>>
    BY <1>1 DEF CloseCycle, Inv, TablesGood, tables
  <2> QED
    BY <2>1, ScanAssumption DEF Promise!CloseCycle
<1>2. CASE UNCHANGED <<today, notified, enqueued>>
  BY <1>2 DEF Promise!vars
<1>3. ASSUME DeleteConfig \/ \E a \in Accounts : ChangeStatus(a)
      PROVE  UNCHANGED <<today, notified, enqueued>>
  BY <1>3 DEF DeleteConfig, ChangeStatus, tables
<1>4. ASSUME NEW w \in Workers,
             \/ Restart(w) \/ Wake(w) \/ AccountFails(w) \/ Insert(w) \/ Crash(w)
             \/ \E a \in Accounts : ScanAccount(w, a)
      PROVE  UNCHANGED <<today, notified, enqueued>>
  BY <1>4 DEF Restart, Wake, AccountFails, Insert, Crash, ScanAccount, tables, others
<1>5. UNCHANGED vars => UNCHANGED <<today, notified, enqueued>>
  BY DEF vars, tables, others
<1> QED
  BY <1>1, <1>2, <1>3, <1>4, <1>5, CommitAnnounces DEF Next, Advance, Promise!Next

LEMMA InvAlways == Spec => []Inv
  BY InitInv, StepInv, PTL DEF Spec

(* Types: only cycles that have closed are notified or about to be         *)
(* (webhooks/service.py, CycleCloseScanService).                           *)
THEOREM TypesAlways == Spec => []TypeOK
<1>1. Inv => TypeOK
  BY DEF Inv, OthersTyped, TablesGood, TypeOK, WorkerGood, ScanGood, ScanOf, Scan
<1> QED
  BY <1>1, InvAlways, PTL

(* The notifications of an account are its cycles up to some date, however *)
(* many processes scan (webhooks/service.py, CycleCloseScanService).       *)
THEOREM NeverGap == Spec => []NoGap
<1>1. Inv => NoGap
  BY DEF Inv, TablesGood
<1> QED
  BY <1>1, InvAlways, PTL

(* The scans implement the promise of ADR-006: closed cycles are announced *)
(* in order, without a gap, each with one event at most.                   *)
THEOREM ScansKeepPromise == Spec => KeepsPromise
<1>1. Init => Promise!Init
  BY InitInv
<1> QED
  BY <1>1, StepSimulates, InvAlways, PTL DEF Spec, KeepsPromise, Promise!Spec
=============================================================================
