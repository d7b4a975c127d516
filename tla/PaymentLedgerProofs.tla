------------------------ MODULE PaymentLedgerProofs ------------------------
(***************************************************************************)
(* The ledger, for every calendar, account, import file and history.       *)
(*                                                                         *)
(* A recursive function (a projection, a replay, a file's running balance, *)
(* the fold of a sum) is brought down to its recursion equations by the    *)
(* least index at which no function satisfies them; so is every fact that  *)
(* holds at each of its steps.  From there on a projection is its rows, a  *)
(* replay is what follows an order step by step (Replayed), and two        *)
(* replays are compared at the first step where they differ (ReplaysAgree, *)
(* ReplayUnique).  A snapshot depends on the payments before its day only  *)
(* (NativeSnapshotLocal): that is why a deletion, a backdated payment and  *)
(* an appended row leave what a recalculation would store.                 *)
(*                                                                         *)
(* The invariant of the history is IInv, that of the stored money          *)
(* TypedInv.                                                               *)
(***************************************************************************)
EXTENDS PaymentLedger, TLAPS, WellFoundedInduction, FiniteSetTheorems

-----------------------------------------------------------------------------
(* The calendar. *)

Less == {ss \in Nat \X Nat : ss[1] < ss[2]}

(* No sequence of natural numbers decreases for ever. *)
LEMMA LessWellFounded == IsWellFoundedOn(Less, Nat)
  <1>1. OpToRel(<, Nat) = Less
    BY DEF OpToRel, Less
  <1>2. QED
    BY <1>1, NatLessThanWellFounded

(* A nonempty set of natural numbers has a least element. *)
LEMMA LeastExists ==
  ASSUME NEW S \in SUBSET Nat, S # {}
  PROVE  \E m \in S : \A n \in S : m <= n
  <1>1. PICK m \in S : \A n \in S : <<n, m>> \notin Less
    BY LessWellFounded, WFMin
  <1>2. ASSUME NEW n \in S
        PROVE  m <= n
    <2>1. n \in Nat /\ m \in Nat /\ <<n, m>> \notin Less
      BY <1>1
    <2>2. QED
      BY <2>1 DEF Less
  <1>3. QED
    BY <1>2

(* One that has an upper bound has a greatest element. *)
LEMMA GreatestExists ==
  ASSUME NEW S \in SUBSET Nat, S # {}, NEW n \in Nat, \A s \in S : s <= n
  PROVE  \E m \in S : \A s \in S : s <= m
  <1> DEFINE T == {n - s : s \in S}
  <1>1. \A s \in S : s \in Nat /\ n - s \in Nat
    OBVIOUS
  <1>2. T \in SUBSET Nat /\ T # {}
    BY <1>1
  <1> HIDE DEF T
  <1>3. PICK t \in T : \A u \in T : t <= u
    BY <1>2, LeastExists
  <1>4. PICK m \in S : t = n - m
    BY <1>3 DEF T
  <1>5. \A s \in S : n - s \in T
    BY DEF T
  <1>6. \A s \in S : n - m <= n - s
    BY <1>3, <1>4, <1>5
  <1>7. QED
    BY <1>1, <1>6

(* next_cycle_date, on a day that has a later cycle, is the least cycle    *)
(* that is not before the day.                                             *)
LEMMA NextCycleFrom ==
  ASSUME NEW d \in Nat, NEW later \in CycleDays, d <= later
  PROVE  /\ next_cycle_date(d) \in CycleDays
         /\ next_cycle_date(d) \in Nat
         /\ d <= next_cycle_date(d)
         /\ \A c \in CycleDays : d <= c => next_cycle_date(d) <= c
  <1> DEFINE S == {c \in CycleDays : c >= d}
  <1>1. S \in SUBSET Nat /\ later \in S
    BY CyclesAssumption
  <1>2. PICK c \in S : \A b \in S : c <= b
    BY <1>1, LeastExists
  <1>3. c \in CycleDays /\ c >= d /\ \A b \in CycleDays : b >= d => c <= b
    BY <1>2
  <1>4. /\ next_cycle_date(d) \in CycleDays
        /\ next_cycle_date(d) >= d
        /\ \A b \in CycleDays : b >= d => next_cycle_date(d) <= b
    BY <1>3 DEF next_cycle_date
  <1>5. QED
    BY <1>4, CyclesAssumption

LEMMA NextCycle ==
  ASSUME NEW d \in Days
  PROVE  /\ next_cycle_date(d) \in CycleDays
         /\ next_cycle_date(d) \in Nat
         /\ d <= next_cycle_date(d)
         /\ \A c \in CycleDays : d <= c => next_cycle_date(d) <= c
  <1>1. d \in Nat /\ \E c \in CycleDays : d <= c
    BY LedgerAssumption, CalendarCovers DEF Days
  <1>2. QED
    BY <1>1, NextCycleFrom

(* The cycle before the next one of a day is before that day. *)
LEMMA PreviousCycle ==
  ASSUME NEW d \in Days
  PROVE  /\ previous_cycle(next_cycle_date(d)) \in Nat
         /\ previous_cycle(next_cycle_date(d)) < d
  <1> DEFINE nxt == next_cycle_date(d)
             S   == {c \in CycleDays : c < nxt}
  <1>1. d \in Nat /\ nxt \in Nat /\ d <= nxt
        /\ \A c \in CycleDays : d <= c => nxt <= c
    BY NextCycle, LedgerAssumption DEF Days
  <1>2. S \in SUBSET Nat /\ \A s \in S : s <= nxt
    <2>1. \A s \in S : s \in CycleDays /\ s < nxt
      OBVIOUS
    <2>2. \A s \in S : s \in Nat /\ s <= nxt
      BY <1>1, <2>1, CyclesAssumption
    <2>3. QED
      BY <2>2
  <1>3. S # {}
    BY <1>1, CalendarCovers, CyclesAssumption
  <1> HIDE DEF nxt
  <1>4. PICK p \in S : \A s \in S : s <= p
    BY <1>1, <1>2, <1>3, GreatestExists
  <1>5. p \in CycleDays /\ p < nxt /\ \A b \in CycleDays : b < nxt => b <= p
    BY <1>4
  <1>6. previous_cycle(nxt) \in CycleDays /\ previous_cycle(nxt) < nxt
    BY <1>5 DEF previous_cycle
  <1>7. previous_cycle(nxt) \in Nat
    BY <1>6, CyclesAssumption
  <1>8. previous_cycle(nxt) < d
    BY <1>1, <1>6, <1>7
  <1>9. QED
    BY <1>7, <1>8 DEF nxt

(* The anchor of an import is not before the import, and never after the   *)
(* next cycle.                                                             *)
LEMMA AnchorBounds ==
  ASSUME NEW d \in Days
  PROVE  /\ AnchorDate(d) \in Nat
         /\ d <= AnchorDate(d) /\ AnchorDate(d) <= next_cycle_date(d)
  <1>1. d \in Nat
    BY LedgerAssumption DEF Days
  <1>2. next_cycle_date(d) \in Nat /\ d <= next_cycle_date(d)
    BY NextCycle
  <1>3. /\ previous_cycle(next_cycle_date(d)) \in Nat
        /\ previous_cycle(next_cycle_date(d)) < d
    BY PreviousCycle
  <1>4. QED
    BY <1>1, <1>2, <1>3 DEF AnchorDate, LargerOf, nearest_cycle_date

(* A later import never has an earlier anchor: checking the anchor of the  *)
(* last import is checking them all.                                       *)
LEMMA AnchorMonotone ==
  ASSUME NEW d \in Days, NEW e \in Days, d <= e
  PROVE  AnchorDate(d) <= AnchorDate(e)
  <1> DEFINE nd == next_cycle_date(d)
             ne == next_cycle_date(e)
  <1>1. d \in Nat /\ e \in Nat
    BY LedgerAssumption DEF Days
  <1>2. /\ nd \in CycleDays /\ nd \in Nat /\ d <= nd
        /\ \A c \in CycleDays : d <= c => nd <= c
    BY NextCycle
  <1>3. /\ ne \in CycleDays /\ ne \in Nat /\ e <= ne
        /\ \A c \in CycleDays : e <= c => ne <= c
    BY NextCycle
  <1>4. /\ AnchorDate(d) \in Nat /\ AnchorDate(d) <= nd
        /\ AnchorDate(e) \in Nat /\ e <= AnchorDate(e)
    BY AnchorBounds
  <1>5. CASE nd < e
    BY <1>1, <1>2, <1>4, <1>5
  <1>6. CASE e <= nd
    <2>1. nd = ne
      BY <1>1, <1>2, <1>3, <1>6
    <2>2. previous_cycle(nd) \in Nat /\ previous_cycle(nd) < d
      BY PreviousCycle
    <2>3. QED
      BY <1>1, <1>2, <2>1, <2>2 DEF AnchorDate, LargerOf, nearest_cycle_date
  <1>7. QED
    BY <1>1, <1>2, <1>5, <1>6

-----------------------------------------------------------------------------
(* The shape of the history. *)

(* Adding payments to a history: the domain grows by theirs, the payments  *)
(* already there stay as they are.                                         *)
LEMMA InsertRows ==
  ASSUME NEW f, NEW g
  PROVE  /\ DOMAIN Insert(f, g) = DOMAIN f \union DOMAIN g
         /\ \A x \in DOMAIN f : Insert(f, g)[x] = f[x]
         /\ \A x \in DOMAIN g \ DOMAIN f : Insert(f, g)[x] = g[x]
  BY DEF Insert

(* Replay gives every payment of the history, and no other, a snapshot.    *)
LEMMA ReplayDomain ==
  ASSUME NEW acct, NEW pays, NEW stored, NEW order
  PROVE  DOMAIN Replay(acct, pays, stored, order) = DOMAIN pays
  BY DEF Replay
(* A history that starts from a typed one and has new typed rows is typed. *)
LEMMA TypedInsert ==
  ASSUME NEW new, payments \in [Recorded -> Payment],
         DOMAIN new \subseteq Ids \ Recorded, Recorded \subseteq Ids,
         \A p \in DOMAIN new : new[p] \in Payment
  PROVE  /\ Insert(payments, new)
              \in [DOMAIN Insert(payments, new) -> Payment]
         /\ DOMAIN Insert(payments, new) = Recorded \union DOMAIN new
         /\ DOMAIN Insert(payments, new) \subseteq Ids
  <1>1. DOMAIN Insert(payments, new) = Recorded \union DOMAIN new
    BY InsertRows DEF Recorded
  <1>2. \A p \in Recorded \union DOMAIN new : Insert(payments, new)[p] \in Payment
    BY DEF Insert, Recorded
  <1>3. Insert(payments, new)
          = [p \in DOMAIN Insert(payments, new) |-> Insert(payments, new)[p]]
    BY DEF Insert
  <1>4. QED
    BY <1>1, <1>2, <1>3

LEMMA InitTyped == Init => HistoryTyped
  <1>1. SUFFICES ASSUME Init PROVE HistoryTyped
    OBVIOUS
  <1>2. account \in Account
    BY <1>1, LedgerAssumption
       DEF Init, NoAccount, Account, RateScale
  <1>3. Recorded = {} /\ DOMAIN snap = {} /\ payments \in [Recorded -> Payment]
    BY <1>1 DEF Init, Recorded
  <1>4. QED
    BY <1>1, <1>2, <1>3 DEF Init, HistoryTyped, Exists, NoAccount

LEMMA NewAccountTyped ==
  ASSUME NEW b \in Borrowed, NEW r \in Rates \union {0}, NEW s \in StartDays
  PROVE  /\ NewAccount(b, r, s) \in Account /\ NewAccount(b, r, s).status # "none"
         /\ NewAccount(b, r, s).start \in Days
  <1>1. b \in Nat
    BY LedgerAssumption
  <1>2. r \in 0..RateScale
    BY SMTT(30), LedgerAssumption DEF RateScale
  <1>3. s \in Nat
    BY LedgerAssumption DEF Days
  <1>4. QED
    BY <1>1, <1>2, <1>3, LedgerAssumption DEF NewAccount, Account, Statuses

LEMMA AccountStepTyped ==
  ASSUME HistoryTyped,
         \/ Tick \/ CreateAccount \/ UpdateAccount \/ CloseAccount
         \/ \E force \in BOOLEAN : PurgeAccount(force)
  PROVE  HistoryTyped'
  <1>1. CASE Tick
    <2>1. today' \in Days
      BY <1>1, LedgerAssumption DEF HistoryTyped, Tick, Days
    <2>2. QED
      BY <1>1, <2>1 DEF HistoryTyped, Tick, Recorded, Exists
  <1>2. CASE CreateAccount
    <2>1. PICK b \in Borrowed, r \in Rates, s \in StartDays :
            account' = NewAccount(b, r, s)
      BY <1>2 DEF CreateAccount
    <2>2. account' \in Account /\ account'.status # "none" /\ account'.start \in Days
      BY <2>1, NewAccountTyped
    <2>3. QED
      BY <1>2, <2>2 DEF HistoryTyped, CreateAccount, Recorded, Exists
  <1>3. CASE UpdateAccount
    <2>1. PICK r \in Rates \union {account.rate},
               s \in StatusPatches \union {account.status} :
            account' = [account EXCEPT !.rate = r, !.status = s]
      BY <1>3 DEF UpdateAccount
    <2>2. account \in Account /\ account.status # "none"
      BY <1>3 DEF HistoryTyped, UpdateAccount, Exists
    <2>3. r \in 0..RateScale /\ s \in Statuses
      <3>1. account.rate \in 0..RateScale /\ account.status \in Statuses
        BY <2>2 DEF Account
      <3>2. \A x \in Rates : x \in 0..RateScale
        BY LedgerAssumption DEF RateScale
      <3>3. QED
        BY <3>1, <3>2, LedgerAssumption
    <2>4. account' \in Account /\ account'.status # "none" /\ account'.start = account.start
      BY <2>1, <2>2, <2>3 DEF Account, Statuses
    <2>5. QED
      BY <1>3, <2>4 DEF HistoryTyped, UpdateAccount, Recorded, Exists
  <1>4. CASE CloseAccount
    <2>1. account' \in Account /\ account'.status # "none" /\ account'.start = account.start
      BY <1>4 DEF HistoryTyped, CloseAccount, Account, Statuses, Exists
    <2>2. QED
      BY <1>4, <2>1 DEF HistoryTyped, CloseAccount, Recorded, Exists
  <1>5. CASE \E force \in BOOLEAN : PurgeAccount(force)
    <2>1. account' \in Account /\ today' = today
      BY <1>5 DEF PurgeAccount, NoAccount, Account, RateScale
    <2>2. Recorded' = {} /\ DOMAIN snap' = {}
          /\ payments' \in [Recorded' -> Payment]
      BY <1>5 DEF PurgeAccount, Recorded
    <2>3. ~Exists'
      BY <1>5 DEF PurgeAccount, NoAccount, Exists
    <2>4. QED
      BY <2>1, <2>2, <2>3 DEF HistoryTyped
  <1>6. QED
    BY <1>1, <1>2, <1>3, <1>4, <1>5
LEMMA AddTyped ==
  ASSUME HistoryTyped,
         NEW p \in Ids \ Recorded, NEW amount \in Amounts, NEW d \in Days,
         NEW method \in {"auto", "manual"}, NEW order,
         AddPayment(p, amount, d, method, order)
  PROVE  HistoryTyped'
  <1> DEFINE new   == [q \in {p} |->
                        [date |-> d, amount |-> amount, method |-> method]]
             after == LiveSnapshot(amount, d,
                                   ledger_anchor(payments, snap, order)).after
  <1>1. /\ Exists /\ payments' = Insert(payments, new)
        /\ account' = [account EXCEPT !.status = StatusAfterAdd(after)]
        /\ today' = today
    BY DEF AddPayment
  <1>2. snap' = Insert(snap, [q \in {p} |-> LiveSnapshot(amount, d,
                                 ledger_anchor(payments, snap, order))])
    BY DEF AddPayment
  <1>3. DOMAIN new = {p} /\ new[p] \in Payment
    BY LedgerAssumption DEF Payment
  <1>4. /\ payments' \in [Recorded' -> Payment] /\ Recorded' \subseteq Ids
        /\ Recorded' = Recorded \union {p}
    BY <1>1, <1>3, TypedInsert DEF HistoryTyped, Recorded
  <1>5. DOMAIN snap' = Recorded'
    BY <1>2, <1>4, InsertRows DEF HistoryTyped
  <1>6. account \in Account /\ account.status # "none"
    BY <1>1 DEF HistoryTyped, Exists
  <1>7. StatusAfterAdd(after) \in Statuses
    BY <1>6 DEF StatusAfterAdd, Account, Statuses
  <1>8. account' \in Account /\ account'.status # "none"
    BY <1>1, <1>6, <1>7 DEF Account, Statuses
  <1>9. QED
    BY <1>1, <1>4, <1>5, <1>8 DEF HistoryTyped, Exists

LEMMA DeleteTyped ==
  ASSUME HistoryTyped, NEW p \in Recorded, NEW order, DeletePayment(p, order)
  PROVE  HistoryTyped' /\ Recorded' = Without(p)
         /\ \A q \in Recorded' : payments'[q] = payments[q]
  <1> DEFINE kept == Restrict(payments, Without(p))
             new  == Replay(account, kept, snap, order)
  <1>1. /\ Exists /\ payments' = kept /\ snap' = new /\ today' = today
        /\ account' = [account EXCEPT !.status = StatusAfterReplay(new, order)]
    BY DEF DeletePayment
  <1>2. DOMAIN kept = Without(p) /\ \A q \in Without(p) : kept[q] = payments[q]
    BY DEF Restrict
  <1>3. kept \in [Without(p) -> Payment] /\ Without(p) \subseteq Ids
    BY DEF HistoryTyped, Restrict, Without
  <1>4. DOMAIN new = Without(p)
    BY <1>2, ReplayDomain
  <1>5. StatusAfterReplay(new, order) \in Statuses
    BY DEF StatusAfterReplay, Statuses
  <1>6. account \in Account
    BY DEF HistoryTyped
  <1> HIDE DEF new, kept
  <1>7. account' \in Account /\ account'.status # "none"
    BY <1>1, <1>5, <1>6 DEF Account, Statuses
  <1>8. Recorded' = Without(p)
    BY <1>1, <1>2 DEF Recorded
  <1>9. QED
    BY <1>1, <1>2, <1>3, <1>4, <1>7, <1>8 DEF HistoryTyped, Exists

(* Importing rows: each new payment is one row of the file. *)
LEMMA ImportTyped ==
  ASSUME HistoryTyped, NEW file \in ImportFiles, NEW rows \in SUBSET DOMAIN file,
         NEW new \in Injection(rows, Ids \ Recorded),
         NEW acct \in Account, acct.status # "none", acct.start \in Days, NEW balance,
         InsertImported(acct, file, new, balance)
  PROVE  /\ HistoryTyped'
         /\ Recorded' = Recorded \union Range(new)
         /\ \A p \in Recorded : payments'[p] = payments[p]
         /\ \A p \in Recorded' \ Recorded :
              /\ payments'[p].method = "import"
              /\ \E i \in rows : payments'[p].date = file[i].date
  <1> DEFINE row(p)   == CHOOSE i \in DOMAIN new : new[i] = p
             added    == [p \in Range(new) |->
                            [date |-> file[row(p)].date,
                             amount |-> file[row(p)].amount,
                             method |-> "import"]]
             after    == RunningAfter(file, DOMAIN new, balance)
             stored   == [p \in Range(new) |->
                            Snapshot(after[row(p) - 1],
                                     file[row(p)].interest,
                                     file[row(p)].amount)]
             status   == StatusAfterImport(after[Len(file)], acct.status)
  <1>1. /\ payments' = Insert(payments, added)
        /\ snap' = Insert(snap, stored)
        /\ account' = [acct EXCEPT !.status = status] /\ today' = today
    BY DEF InsertImported
  <1>2. new \in [rows -> Ids \ Recorded]
    BY DEF Injection
  <1>3. \A p \in Range(new) : row(p) \in rows /\ p \in Ids \ Recorded
    BY <1>2 DEF Range
  <1>4. \A i \in DOMAIN file : file[i] \in ImportRows
    BY LedgerAssumption
  <1>5. \A p \in Range(new) : added[p] \in Payment
    BY <1>3, <1>4 DEF ImportRows, Payment
  <1>6. DOMAIN added = Range(new) /\ DOMAIN stored = Range(new)
    OBVIOUS
  <1>7. \A p \in Range(new) : /\ added[p].method = "import"
                              /\ added[p].date = file[row(p)].date
    OBVIOUS
  <1>8. status \in Statuses
    BY DEF StatusAfterImport, Account, Statuses
  <1> HIDE DEF added, stored, status, row
  <1>9. account' \in Account /\ account'.status # "none" /\ account'.start \in Days
    BY <1>1, <1>8 DEF Account, Statuses
  <1>10. /\ payments' \in [Recorded' -> Payment] /\ Recorded' \subseteq Ids
         /\ Recorded' = Recorded \union Range(new)
    BY <1>1, <1>3, <1>5, <1>6, TypedInsert DEF HistoryTyped, Recorded
  <1>11. DOMAIN snap' = Recorded'
    <2>1. DOMAIN Insert(snap, stored) = DOMAIN snap \union DOMAIN stored
      BY InsertRows
    <2>2. QED
      BY <1>1, <1>6, <1>10, <2>1 DEF HistoryTyped
  <1>12. HistoryTyped'
    BY <1>1, <1>9, <1>10, <1>11 DEF HistoryTyped, Exists
  <1>13. \A p \in Recorded : payments'[p] = payments[p]
    BY <1>1, InsertRows DEF Recorded
  <1>14. \A p \in Recorded' \ Recorded : payments'[p] = added[p]
    <2>1. \A p \in DOMAIN added \ DOMAIN payments :
            Insert(payments, added)[p] = added[p]
      BY InsertRows
    <2>2. QED
      BY <1>1, <1>6, <1>10, <2>1 DEF Recorded
  <1>15. QED
    BY <1>3, <1>7, <1>10, <1>12, <1>13, <1>14

-----------------------------------------------------------------------------
(* The order in which rows are returned. *)

(* Every payment has a place in the order, and the last one has the latest *)
(* date.                                                                   *)
LEMMA OrderOfRows ==
  ASSUME HistoryTyped, NEW order \in Chronological(payments), Recorded # {}
  PROVE  /\ Len(order) \in DOMAIN order /\ order # <<>>
         /\ DOMAIN order = 1..Len(order)
         /\ \A i \in DOMAIN order : order[i] \in Recorded
         /\ \A p \in Recorded : \E i \in DOMAIN order : order[i] = p
         /\ \A i, j \in DOMAIN order :
              i <= j => payments[order[i]].date <= payments[order[j]].date
  <1> DEFINE n == Cardinality(Recorded)
  <1>1. IsFiniteSet(Recorded)
    BY LedgerAssumption, FS_Subset DEF HistoryTyped
  <1>2. n \in Nat /\ n # 0
    BY <1>1, FS_CardinalityType, FS_EmptySet
  <1>3. /\ order \in [1..n -> Recorded]
        /\ \A p \in Recorded : \E i \in 1..n : order[i] = p
        /\ \A i, j \in DOMAIN order :
             i < j => payments[order[i]].date <= payments[order[j]].date
    BY DEF Chronological, Bijection, Injection, Surjection, Recorded
  <1> HIDE DEF n
  <1>4. order \in Seq(Recorded) /\ Len(order) = n
    BY <1>2, <1>3
  <1>5. \A p \in Recorded : payments[p].date \in Nat
    BY LedgerAssumption DEF HistoryTyped, Payment, Days
  <1>6. \A i, j \in DOMAIN order :
          i <= j => payments[order[i]].date <= payments[order[j]].date
    BY <1>2, <1>3, <1>5
  <1>7. QED
    BY <1>2, <1>3, <1>4, <1>6

(* ledger_anchor takes an import that no import is later than. *)
LEMMA LastImport ==
  ASSUME HistoryTyped, NEW order \in Chronological(payments),
         NEW i \in Recorded, Imported(i)
  PROVE  \E last \in Recorded :
           /\ Imported(last)
           /\ ledger_anchor(payments, snap, order)
                = AnchorAt(payments[last].date, snap[last].after)
           /\ \A k \in Recorded : Imported(k) => payments[k].date <= payments[last].date
  <1> DEFINE imports == {k \in DOMAIN order :
                           payments[order[k]].method = "import"}
             last    == order[Max(imports)]
  <1>1. /\ DOMAIN order = 1..Len(order) /\ Len(order) \in DOMAIN order
        /\ \A k \in DOMAIN order : order[k] \in Recorded
        /\ \A p \in Recorded : \E k \in DOMAIN order : order[k] = p
        /\ \A k, l \in DOMAIN order :
             k <= l => payments[order[k]].date <= payments[order[l]].date
    BY OrderOfRows
  <1>2. \A p \in Recorded : Imported(p) => \E k \in imports : order[k] = p
    BY <1>1 DEF Imported
  <1>3. imports # {}
    BY <1>2
  <1>4. \E m \in imports : \A l \in imports : l <= m
    <2>1. \A l \in imports : l \in Nat /\ l <= Len(order)
      BY <1>1
    <2>2. imports \in SUBSET Nat /\ Len(order) \in Nat
      BY <1>1, <2>1
    <2> HIDE DEF imports
    <2>3. QED
      BY <1>3, <2>1, <2>2, GreatestExists
  <1>5. Max(imports) \in imports /\ \A l \in imports : Max(imports) >= l
    BY <1>1, <1>4 DEF Max
  <1>6. last \in Recorded /\ Imported(last)
    BY <1>1, <1>5 DEF Imported
  <1>7. ledger_anchor(payments, snap, order)
          = AnchorAt(payments[last].date, snap[last].after)
    BY <1>3 DEF ledger_anchor
  <1>8. \A k \in Recorded : Imported(k) => payments[k].date <= payments[last].date
    BY <1>1, <1>2, <1>5
  <1> HIDE DEF last
  <1>9. QED
    BY <1>6, <1>7, <1>8

(* So its anchor is not before the anchor of any import. *)
LEMMA LastAnchor ==
  ASSUME HistoryTyped, NEW order \in Chronological(payments),
         NEW i \in Recorded, Imported(i)
  PROVE  /\ ledger_anchor(payments, snap, order).some
         /\ ledger_anchor(payments, snap, order).date \in Nat
         /\ AnchorDate(payments[i].date)
              <= ledger_anchor(payments, snap, order).date
  <1>1. PICK last \in Recorded :
           /\ Imported(last)
           /\ ledger_anchor(payments, snap, order)
                = AnchorAt(payments[last].date, snap[last].after)
           /\ \A k \in Recorded : Imported(k) => payments[k].date <= payments[last].date
    BY LastImport
  <1>2. /\ payments[last].date \in Days /\ payments[i].date \in Days
        /\ payments[i].date <= payments[last].date
    BY <1>1 DEF HistoryTyped, Payment
  <1>3. AnchorDate(payments[i].date) <= AnchorDate(payments[last].date)
        /\ AnchorDate(payments[last].date) \in Nat
    BY <1>2, AnchorMonotone, AnchorBounds
  <1>4. QED
    BY <1>1, <1>3 DEF AnchorAt

(* Without an import there is no anchor. *)
LEMMA NoImportNoAnchor ==
  ASSUME HistoryTyped, NEW order \in Chronological(payments),
         \A i \in Recorded : ~Imported(i)
  PROVE  ledger_anchor(payments, snap, order) = NoAnchor
  <1>1. \A k \in DOMAIN order : order[k] \in Recorded
    BY DEF Chronological, Bijection, Injection, Recorded
  <1>2. QED
    BY <1>1 DEF ledger_anchor, Imported

-----------------------------------------------------------------------------
(* The invariant. *)

IInv == HistoryTyped /\ NoPaymentInAnchorGap

(* A history that only loses payments keeps its anchors clear. *)
LEMMA SmallerHistoryClear ==
  ASSUME NoPaymentInAnchorGap, Recorded' \subseteq Recorded,
         \A q \in Recorded' : payments'[q] = payments[q]
  PROVE  NoPaymentInAnchorGap'
  BY DEF NoPaymentInAnchorGap, Imported

(* add_payment refuses a date up to the last anchor, which no anchor       *)
(* exceeds.                                                                *)
LEMMA AddClear ==
  ASSUME IInv,
         NEW p \in Ids \ Recorded, NEW amount \in Amounts, NEW d \in Days,
         NEW method \in {"auto", "manual"},
         NEW order \in Chronological(payments),
         AddPayment(p, amount, d, method, order)
  PROVE  NoPaymentInAnchorGap'
  <1> DEFINE new == [q \in {p} |->
                      [date |-> d, amount |-> amount, method |-> method]]
             anchor == ledger_anchor(payments, snap, order)
  <1>1. payments' = Insert(payments, new) /\ (anchor.some => d > anchor.date)
    BY DEF AddPayment
  <1>2. /\ Recorded' = Recorded \union {p} /\ p \notin Recorded
        /\ \A q \in Recorded : payments'[q] = payments[q]
        /\ payments'[p].date = d /\ payments'[p].method # "import"
    <2>1. DOMAIN new = {p} /\ new[p].date = d /\ new[p].method = method
      OBVIOUS
    <2> HIDE DEF new
    <2>2. /\ DOMAIN Insert(payments, new) = DOMAIN payments \union DOMAIN new
          /\ \A x \in DOMAIN payments : Insert(payments, new)[x] = payments[x]
          /\ \A x \in DOMAIN new \ DOMAIN payments :
               Insert(payments, new)[x] = new[x]
      BY InsertRows
    <2>3. QED
      BY <1>1, <2>1, <2>2 DEF Recorded
  <1>3. \A i \in Recorded : Imported(i) => AnchorDate(payments[i].date) < d
    <2>1. SUFFICES ASSUME NEW i \in Recorded, Imported(i)
                   PROVE  AnchorDate(payments[i].date) < d
      OBVIOUS
    <2>2. /\ anchor.some /\ anchor.date \in Nat
          /\ AnchorDate(payments[i].date) <= anchor.date
      BY <2>1, LastAnchor DEF IInv
    <2>3. payments[i].date \in Days /\ AnchorDate(payments[i].date) \in Nat
      BY AnchorBounds DEF IInv, HistoryTyped, Payment
    <2>4. d \in Nat
      BY LedgerAssumption DEF Days
    <2> HIDE DEF anchor
    <2>5. QED
      BY <1>1, <2>2, <2>3, <2>4
  <1>4. QED
    BY <1>2, <1>3 DEF IInv, NoPaymentInAnchorGap, Imported

(* The rows of a file are dated no earlier than what is recorded, so no    *)
(* payment already there falls after one of them.                          *)
LEMMA ImportClear ==
  ASSUME IInv, HistoryTyped',
         Recorded \subseteq Recorded',
         \A p \in Recorded : payments'[p] = payments[p],
         \A p \in Recorded' \ Recorded :
           /\ payments'[p].method = "import"
           /\ \A q \in Recorded : payments[q].date <= payments'[p].date
  PROVE  NoPaymentInAnchorGap'
  <1>1. \A p \in Recorded' : payments'[p].date \in Nat
    BY LedgerAssumption DEF HistoryTyped, Payment, Days
  <1>2. SUFFICES ASSUME NEW i \in Recorded', NEW p \in Recorded',
                        payments'[i].method = "import",
                        payments'[p].method # "import",
                        payments'[i].date < payments'[p].date
                 PROVE  AnchorDate(payments'[i].date) < payments'[p].date
    BY DEF NoPaymentInAnchorGap, Imported
  <1>3. p \in Recorded
    BY <1>2
  <1>4. i \in Recorded
    BY <1>1, <1>2, <1>3
  <1>5. QED
    BY <1>2, <1>3, <1>4 DEF IInv, NoPaymentInAnchorGap, Imported

LEMMA ExistingImportStep ==
  ASSUME IInv, NEW file \in ImportFiles, NEW order \in Chronological(payments),
         ImportExisting(file, order)
  PROVE  IInv'
  <1> DEFINE rows == Accepted(file, HistoryEnd(order).date)
  <1>1. PICK new \in Injection(rows, Ids \ Recorded) :
          InsertImported(account, file, new, HistoryEnd(order).balance)
    BY DEF ImportExisting
  <1>2. rows \in SUBSET DOMAIN file
    BY DEF Accepted
  <1>3. account \in Account /\ account.status # "none" /\ account.start \in Days
    BY DEF ImportExisting, Exists, IInv, HistoryTyped
  <1>4. /\ HistoryTyped'
        /\ Recorded \subseteq Recorded'
        /\ \A p \in Recorded : payments'[p] = payments[p]
        /\ \A p \in Recorded' \ Recorded :
             /\ payments'[p].method = "import"
             /\ \E i \in rows : payments'[p].date = file[i].date
    <2> HIDE DEF rows
    <2>1. QED
      BY <1>1, <1>2, <1>3, ImportTyped DEF IInv
  <1>5. ASSUME NEW q \in Recorded, NEW i \in rows
        PROVE  payments[q].date <= file[i].date
    <2>1. /\ order # <<>> /\ Len(order) \in DOMAIN order
          /\ DOMAIN order = 1..Len(order)
          /\ \E k \in DOMAIN order : order[k] = q
          /\ \A k, l \in DOMAIN order :
               k <= l => payments[order[k]].date <= payments[order[l]].date
      BY OrderOfRows DEF IInv
    <2>2. payments[q].date <= payments[order[Len(order)]].date
      BY <2>1
    <2>3. payments[order[Len(order)]].date <= file[i].date
      BY <2>1 DEF HistoryEnd, Accepted
    <2>4. payments[q].date \in Int /\ file[i].date \in Int
          /\ payments[order[Len(order)]].date \in Int
      <3>1. order[Len(order)] \in Recorded
        BY <2>1, OrderOfRows DEF IInv
      <3>2. \A x \in Recorded : payments[x].date \in Int
        BY LedgerAssumption DEF IInv, HistoryTyped, Payment, Days
      <3>3. file[i] \in ImportRows
        BY <1>2, LedgerAssumption
      <3>4. QED
        BY <3>1, <3>2, <3>3, LedgerAssumption DEF ImportRows, Days
    <2>5. QED
      BY <2>2, <2>3, <2>4
  <1> HIDE DEF rows
  <1>6. NoPaymentInAnchorGap'
    BY <1>4, <1>5, ImportClear
  <1>7. QED
    BY <1>4, <1>6 DEF IInv

LEMMA CreateImportStep ==
  ASSUME IInv, NEW file \in ImportFiles, ImportCreate(file)
  PROVE  IInv'
  <1>1. Recorded = {}
    BY DEF IInv, HistoryTyped, ImportCreate
  <1>2. PICK b \in Borrowed, r \in Rates \union {0}, s \in StartDays :
          \E new \in Injection(Accepted(file, s), Ids) :
            InsertImported(NewAccount(b, r, s), file, new, b)
    BY DEF ImportCreate
  <1> DEFINE acct == NewAccount(b, r, s)
             rows == Accepted(file, s)
  <1>3. PICK new \in Injection(rows, Ids) : InsertImported(acct, file, new, b)
    BY <1>2
  <1>4. rows \in SUBSET DOMAIN file /\ Ids = Ids \ Recorded
    BY <1>1 DEF Accepted
  <1>5. acct \in Account /\ acct.status # "none" /\ acct.start \in Days
    BY NewAccountTyped
  <1> HIDE DEF acct, rows
  <1>6. /\ HistoryTyped'
        /\ \A p \in Recorded' \ Recorded : payments'[p].method = "import"
    BY <1>3, <1>4, <1>5, ImportTyped DEF IInv
  <1>7. NoPaymentInAnchorGap'
    BY <1>1, <1>6 DEF NoPaymentInAnchorGap, Imported
  <1>8. QED
    BY <1>6, <1>7 DEF IInv
LEMMA InvariantHolds == IInv /\ [Next]_vars => IInv'
  <1>1. SUFFICES ASSUME IInv, [Next]_vars
                 PROVE  IInv'
    OBVIOUS
  <1> USE <1>1
  <1>2. CASE \/ Tick \/ CreateAccount \/ UpdateAccount \/ CloseAccount
             \/ \E force \in BOOLEAN : PurgeAccount(force)
    <2>1. HistoryTyped'
      BY <1>2, AccountStepTyped DEF IInv
    <2>2. payments' = payments \/ payments' = <<>>
      BY <1>2 DEF Tick, CreateAccount, UpdateAccount, CloseAccount,
                  PurgeAccount
    <2>3. Recorded' \subseteq Recorded
          /\ \A q \in Recorded' : payments'[q] = payments[q]
      BY <2>2 DEF Recorded
    <2>4. QED
      BY <2>1, <2>3, SmallerHistoryClear DEF IInv
  <1>3. CASE AddSome
    <2>1. PICK p \in Ids \ Recorded, a \in Amounts, d \in Days,
               m \in {"auto", "manual"}, order \in Chronological(payments) :
            AddPayment(p, a, d, m, order)
      BY <1>3 DEF AddSome
    <2>2. QED
      BY <2>1, AddTyped, AddClear DEF IInv
  <1>4. CASE DeleteSome
    <2>1. PICK p \in Recorded :
            \E order \in Chronological(Restrict(payments, Without(p))) :
              DeletePayment(p, order)
      BY <1>4 DEF DeleteSome
    <2>2. PICK order \in Chronological(Restrict(payments, Without(p))) :
            DeletePayment(p, order)
      BY <2>1
    <2>3. /\ HistoryTyped' /\ Recorded' = Without(p)
          /\ \A q \in Recorded' : payments'[q] = payments[q]
      BY <2>2, DeleteTyped DEF IInv
    <2>4. QED
      BY <2>3, SmallerHistoryClear DEF IInv, Without
  <1>5. CASE ImportSome
    BY <1>5, ExistingImportStep, CreateImportStep DEF ImportSome
  <1>6. CASE UNCHANGED vars
    <2>1. HistoryTyped'
      BY <1>6 DEF IInv, HistoryTyped, vars, Recorded, Exists
    <2>2. Recorded' = Recorded /\ payments' = payments
      BY <1>6 DEF vars, Recorded
    <2>3. QED
      BY <2>1, <2>2, SmallerHistoryClear DEF IInv
  <1>7. QED
    BY <1>2, <1>3, <1>4, <1>5, <1>6 DEF Next

LEMMA InvariantAlways == Spec => []IInv
  <1>1. Init => IInv
    BY InitTyped DEF Init, IInv, NoPaymentInAnchorGap, Recorded
  <1>2. QED
    BY <1>1, InvariantHolds, PTL DEF Spec

(* Every account, payment and stored snapshot has the shape the database   *)
(* gives it: a payment belongs to an account that exists, and every        *)
(* payment, no other, has a snapshot.                                      *)
THEOREM LedgerTyped == Spec => []HistoryTyped
  <1>1. IInv => HistoryTyped
    BY DEF IInv
  <1>2. QED
    BY <1>1, InvariantAlways, PTL

(* No payment made through the application ever lies in the span that an   *)
(* import has settled, whichever import was the last one when the payment  *)
(* was made, and in whatever order the rows were returned.                 *)
THEOREM AnchorGapAlwaysClear == Spec => []NoPaymentInAnchorGap
  <1>1. IInv => NoPaymentInAnchorGap
    BY DEF IInv
  <1>2. QED
    BY <1>1, InvariantAlways, PTL

-----------------------------------------------------------------------------
(* Automatic dates, and the anchor of a history. *)

(* The anchor of an import is the import's own date or the next cycle.     *)
LEMMA AnchorIsDayOrCycle ==
  ASSUME NEW d \in Days
  PROVE  AnchorDate(d) \in {d, next_cycle_date(d)}
  <1>1. d \in Nat
    BY LedgerAssumption DEF Days
  <1>2. next_cycle_date(d) \in Nat /\ d <= next_cycle_date(d)
    BY NextCycle
  <1>3. /\ previous_cycle(next_cycle_date(d)) \in Nat
        /\ previous_cycle(next_cycle_date(d)) < d
    BY PreviousCycle
  <1>4. QED
    BY <1>1, <1>2, <1>3 DEF AnchorDate, LargerOf, nearest_cycle_date

(* Two cycles are not before the anchor of an import. *)
LEMMA CyclesFromAnchor ==
  ASSUME NEW d \in Days
  PROVE  \E c, e \in CycleDays : AnchorDate(d) <= c /\ d <= c /\ c < e
  <1>1. PICK c \in CycleDays, e \in CycleDays : d <= c /\ c < e
    BY CalendarCovers
  <1>2. next_cycle_date(d) <= c
    BY <1>1, NextCycle
  <1>3. QED
    BY <1>1, <1>2, AnchorIsDayOrCycle

(* What an automatic payment is dated after is the last payment or later,  *)
(* and the calendar goes on from there.                                    *)
LEMMA AutoReferenceBounds ==
  ASSUME HistoryTyped, Exists, NEW order \in Chronological(payments)
  PROVE  LET ref == AutoReference(order, ledger_anchor(payments, snap, order))
         IN  /\ ref \in Nat
             /\ \A q \in Recorded : payments[q].date <= ref
             /\ \E c, e \in CycleDays : ref <= c /\ c < e
  <1> DEFINE anchor == ledger_anchor(payments, snap, order)
             last == IF order = <<>> THEN account.start
                                     ELSE payments[order[Len(order)]].date
             ref  == AutoReference(order, anchor)
  <1>1. last \in Days /\ \A q \in Recorded : payments[q].date <= last
    <2>1. CASE Recorded = {}
      <3>1. order = <<>>
        BY <2>1, FS_EmptySet DEF Chronological, Bijection, Injection, Recorded
      <3>2. QED
        BY <2>1, <3>1 DEF HistoryTyped
    <2>2. CASE Recorded # {}
      <3>1. /\ Len(order) \in DOMAIN order /\ order # <<>>
            /\ DOMAIN order = 1..Len(order)
            /\ order[Len(order)] \in Recorded
            /\ \A p \in Recorded : \E i \in DOMAIN order : order[i] = p
            /\ \A i, j \in DOMAIN order :
                 i <= j => payments[order[i]].date <= payments[order[j]].date
        BY <2>2, OrderOfRows
      <3>2. payments[order[Len(order)]].date \in Days
        BY <3>1 DEF HistoryTyped, Payment
      <3>3. \A q \in Recorded : payments[q].date <= payments[order[Len(order)]].date
        BY <3>1
      <3>4. QED
        BY <3>1, <3>2, <3>3
    <2>3. QED
      BY <2>1, <2>2
  <1>2. last \in Nat /\ \E c, e \in CycleDays : last <= c /\ c < e
    BY <1>1, LedgerAssumption, CalendarCovers DEF Days
  <1>3. \A q \in Recorded : payments[q].date \in Nat
    BY LedgerAssumption DEF HistoryTyped, Payment, Days
  <1>4. CASE \A i \in Recorded : ~Imported(i)
    <2>1. ref = last
      BY <1>4, NoImportNoAnchor DEF AutoReference, NoAnchor
    <2>2. QED
      BY <1>1, <1>2, <2>1
  <1>5. CASE \E i \in Recorded : Imported(i)
    <2>1. PICK x \in Recorded : anchor = AnchorAt(payments[x].date, snap[x].after)
      BY <1>5, LastImport
    <2>2. payments[x].date \in Days
      BY DEF HistoryTyped, Payment
    <2>3. /\ AnchorDate(payments[x].date) \in Nat
          /\ \E c, e \in CycleDays : AnchorDate(payments[x].date) <= c /\ c < e
      BY <2>2, AnchorBounds, CyclesFromAnchor
    <2>4. anchor.some /\ anchor.date = AnchorDate(payments[x].date)
      BY <2>1 DEF AnchorAt
    <2> HIDE DEF anchor, last
    <2>5. ref = LargerOf(last, AnchorDate(payments[x].date))
      BY <2>4 DEF AutoReference, last
    <2>6. /\ ref >= last
          /\ ref \in {last, AnchorDate(payments[x].date)}
      BY <1>2, <2>3, <2>5 DEF LargerOf
    <2>7. ref \in Nat /\ \E c, e \in CycleDays : ref <= c /\ c < e
      BY <1>2, <2>3, <2>6
    <2> HIDE DEF ref
    <2>8. \A q \in Recorded : payments[q].date <= ref
      BY <1>1, <1>2, <1>3, <2>6, <2>7
    <2>9. QED
      BY <2>7, <2>8 DEF ref, anchor
  <1>6. QED
    BY <1>4, <1>5

(* The date of an automatic payment is a cycle after it. *)
LEMMA AutoDateBounds ==
  ASSUME HistoryTyped, Exists, NEW order \in Chronological(payments)
  PROVE  LET date == AutoDate(order, ledger_anchor(payments, snap, order))
         IN  /\ date \in CycleDays
             /\ \A q \in Recorded : payments[q].date < date
  <1> DEFINE anchor == ledger_anchor(payments, snap, order)
             ref == AutoReference(order, anchor)
             nxt == next_cycle_date(ref)
             date == AutoDate(order, anchor)
  <1>1. PICK c \in CycleDays, e \in CycleDays :
          /\ ref \in Nat /\ ref <= c /\ c < e
          /\ \A q \in Recorded : payments[q].date <= ref
    BY AutoReferenceBounds
  <1>2. c \in Nat /\ e \in Nat
    BY CyclesAssumption
  <1>3. date = IF nxt <= ref THEN next_cycle_date(nxt + 1) ELSE nxt
    BY DEF AutoDate, advance_cycle
  <1> HIDE DEF ref, date
  <1>4. /\ nxt \in CycleDays /\ nxt \in Nat /\ nxt <= c
    BY <1>1, NextCycleFrom
  <1>5. /\ next_cycle_date(nxt + 1) \in CycleDays
        /\ next_cycle_date(nxt + 1) \in Nat
        /\ nxt + 1 <= next_cycle_date(nxt + 1)
    <2>1. nxt + 1 \in Nat /\ nxt + 1 <= e
      BY <1>1, <1>2, <1>4
    <2> HIDE DEF nxt
    <2>2. QED
      BY <2>1, NextCycleFrom
  <1>6. ref <= nxt
    BY <1>1, NextCycleFrom
  <1> HIDE DEF nxt
  <1>7. date \in CycleDays /\ date \in Nat /\ ref < date
    BY <1>1, <1>3, <1>4, <1>5, <1>6
  <1>8. \A q \in Recorded : payments[q].date \in Nat
    BY LedgerAssumption DEF HistoryTyped, Payment, Days
  <1>9. \A q \in Recorded : payments[q].date < date
    BY <1>1, <1>7, <1>8
  <1>10. QED
    BY <1>7, <1>9 DEF date

(* The payments that a step adds. *)
LEMMA AddedByPayment ==
  ASSUME NEW p, NEW a, NEW d, NEW m, NEW order, p \notin Recorded,
         AddPayment(p, a, d, m, order)
  PROVE  /\ Added = {p}
         /\ payments'[p] = [date |-> d, amount |-> a, method |-> m]
  <1> DEFINE row == [date |-> d, amount |-> a, method |-> m]
             new == [q \in {p} |-> row]
  <1>1. payments' = Insert(payments, new)
    BY DEF AddPayment
  <1>2. DOMAIN new = {p} /\ new[p] = row
    OBVIOUS
  <1> HIDE DEF new, row
  <1>3. /\ DOMAIN payments' = Recorded \union {p}
        /\ \A x \in DOMAIN new \ DOMAIN payments : payments'[x] = new[x]
    BY <1>1, <1>2, InsertRows DEF Recorded
  <1>4. payments'[p] = row
    BY <1>2, <1>3 DEF Recorded
  <1>5. Added = {p}
    BY <1>3 DEF Added, Recorded
  <1>6. QED
    BY <1>4, <1>5 DEF row

LEMMA AddedByOthers ==
  ASSUME IInv, [Next]_vars, ~AddSome, NEW p \in Added
  PROVE  payments'[p].method = "import"
  <1>1. CASE \/ Tick \/ CreateAccount \/ UpdateAccount \/ CloseAccount
             \/ \E force \in BOOLEAN : PurgeAccount(force)
    <2>1. payments' = payments \/ payments' = <<>>
      BY <1>1 DEF Tick, CreateAccount, UpdateAccount, CloseAccount, PurgeAccount
    <2>2. QED
      BY <2>1 DEF Added, Recorded
  <1>2. CASE DeleteSome
    <2>1. Recorded' \subseteq Recorded
      BY <1>2, DeleteTyped DEF IInv, DeleteSome, Without
    <2>2. QED
      BY <2>1 DEF Added
  <1>3. CASE ImportSome
    <2>1. PICK file \in ImportFiles :
            \/ \E order \in Chronological(payments) : ImportExisting(file, order)
            \/ ImportCreate(file)
      BY <1>3 DEF ImportSome
    <2>2. CASE \E order \in Chronological(payments) : ImportExisting(file, order)
      <3>1. PICK order \in Chronological(payments) : ImportExisting(file, order)
        BY <2>2
      <3>2. PICK new \in Injection(Accepted(file, HistoryEnd(order).date), Ids \ Recorded) :
              InsertImported(account, file, new, HistoryEnd(order).balance)
        BY <3>1 DEF ImportExisting
      <3>3. /\ account \in Account /\ account.status # "none" /\ account.start \in Days
            /\ Accepted(file, HistoryEnd(order).date) \in SUBSET DOMAIN file
        BY <3>1 DEF IInv, HistoryTyped, ImportExisting, Exists, Accepted
      <3>4. QED
        BY <3>2, <3>3, ImportTyped DEF IInv, Added
    <2>3. CASE ImportCreate(file)
      <3>1. PICK b \in Borrowed, r \in Rates \union {0}, s \in StartDays :
              \E new \in Injection(Accepted(file, s), Ids) :
                InsertImported(NewAccount(b, r, s), file, new, b)
        BY <2>3 DEF ImportCreate
      <3>2. PICK new \in Injection(Accepted(file, s), Ids) :
              InsertImported(NewAccount(b, r, s), file, new, b)
        BY <3>1
      <3>3. /\ Ids = Ids \ Recorded
            /\ Accepted(file, s) \in SUBSET DOMAIN file
            /\ NewAccount(b, r, s) \in Account
            /\ NewAccount(b, r, s).status # "none" /\ NewAccount(b, r, s).start \in Days
        BY <2>3, NewAccountTyped DEF IInv, HistoryTyped, ImportCreate, Accepted
      <3>4. QED
        BY <3>2, <3>3, ImportTyped DEF IInv, Added
    <2>4. QED
      BY <2>1, <2>2, <2>3
  <1>4. CASE UNCHANGED vars
    BY <1>4 DEF vars, Added, Recorded
  <1>5. QED
    BY <1>1, <1>2, <1>3, <1>4 DEF Next

(* An automatic payment settles a cycle after every payment there is, in   *)
(* whatever order the rows were returned.                                  *)
THEOREM AutoPaymentAlwaysNew == Spec => AutoPaymentIsNew
  <1> DEFINE New == \A p \in Added : (payments'[p].method = "auto") =>
                      /\ payments'[p].date \in CycleDays
                      /\ \A q \in Recorded : payments[q].date < payments'[p].date
  <1>1. IInv /\ [Next]_vars => [New]_vars
    <2>1. SUFFICES ASSUME IInv, [Next]_vars, NEW p \in Added,
                          payments'[p].method = "auto"
                   PROVE  /\ payments'[p].date \in CycleDays
                          /\ \A q \in Recorded : payments[q].date < payments'[p].date
      OBVIOUS
    <2>2. AddSome
      BY <2>1, AddedByOthers
    <2>3. PICK q \in Ids \ Recorded, a \in Amounts, d \in Days,
               m \in {"auto", "manual"}, order \in Chronological(payments) :
            AddPayment(q, a, d, m, order)
      BY <2>2 DEF AddSome
    <2>4. /\ p = q /\ m = "auto" /\ payments'[p].date = d
      <3>1. /\ Added = {q}
            /\ payments'[q] = [date |-> d, amount |-> a, method |-> m]
        BY <2>3, AddedByPayment
      <3>2. p = q
        BY <2>1, <3>1
      <3>3. QED
        BY <2>1, <3>1, <3>2
    <2>5. d = AutoDate(order, ledger_anchor(payments, snap, order)) /\ Exists
      BY <2>3, <2>4 DEF AddPayment
    <2>6. QED
      BY <2>1, <2>4, <2>5, AutoDateBounds DEF IInv
  <1>2. QED
    BY <1>1, InvariantAlways, PTL DEF Spec, AutoPaymentIsNew

-----------------------------------------------------------------------------
(* Without a tie, which import is the last one does not depend on the      *)
(* order in which the rows are returned.                                   *)
LEMMA AnchorDetermined ==
  ASSUME HistoryTyped, ~ImportTie(payments),
         NEW o1 \in Chronological(payments), NEW o2 \in Chronological(payments)
  PROVE  ledger_anchor(payments, snap, o1) = ledger_anchor(payments, snap, o2)
  <1>1. CASE \A i \in Recorded : ~Imported(i)
    BY <1>1, NoImportNoAnchor
  <1>2. CASE \E i \in Recorded : Imported(i)
    <2>1. PICK x \in Recorded :
           /\ Imported(x)
           /\ ledger_anchor(payments, snap, o1) = AnchorAt(payments[x].date, snap[x].after)
           /\ \A k \in Recorded : Imported(k) => payments[k].date <= payments[x].date
      BY <1>2, LastImport
    <2>2. PICK y \in Recorded :
           /\ Imported(y)
           /\ ledger_anchor(payments, snap, o2) = AnchorAt(payments[y].date, snap[y].after)
           /\ \A k \in Recorded : Imported(k) => payments[k].date <= payments[y].date
      BY <1>2, LastImport
    <2>3. payments[x].date \in Nat /\ payments[y].date \in Nat
      BY LedgerAssumption DEF HistoryTyped, Payment, Days
    <2>4. payments[x].date = payments[y].date
      BY <2>1, <2>2, <2>3
    <2>5. x = y
      BY <2>1, <2>2, <2>4 DEF ImportTie, Imported, Recorded
    <2>6. QED
      BY <2>1, <2>2, <2>5
  <1>3. QED
    BY <1>1, <1>2

(* The displayed balance depends on the order in which a query returns     *)
(* rows of one date only if one of them is an import.                      *)
THEOREM BalanceAlwaysDetermined == Spec => []BalanceDeterminedUnlessImportTie
  <1>1. HistoryTyped => BalanceDeterminedUnlessImportTie
    <2>1. SUFFICES ASSUME HistoryTyped, ~ImportTie(payments),
                          NEW o1 \in Chronological(payments),
                          NEW o2 \in Chronological(payments)
                   PROVE  Balance(o1) = Balance(o2)
      BY DEF BalanceDeterminedUnlessImportTie, BalanceDetermined
    <2>2. ledger_anchor(payments, snap, o1) = ledger_anchor(payments, snap, o2)
      BY <2>1, AnchorDetermined
    <2>3. QED
      BY <2>2 DEF Balance
  <1>2. QED
    BY <1>1, LedgerTyped, PTL

-----------------------------------------------------------------------------
(* Sums over finite sets: the fold adds each element once. *)

(* One step of the fold that sums the values of f over a set. *)
SumStep(sum, f, S) ==
  IF S = {} THEN 0
  ELSE LET x == CHOOSE x \in S : TRUE IN f[x] + sum[S \ {x}]

LEMMA SumUnfold ==
  ASSUME NEW f, NEW S
  PROVE  SumFunctionOnSet(f, S)
           = (CHOOSE sum : sum = [T \in SUBSET S |-> SumStep(sum, f, T)])[S]
  BY DEF SumFunctionOnSet, FoldFunctionOnSet, MapThenFoldSet, SumStep

(* The fold has a value on every part of a finite set. *)
LEMMA SumExists ==
  ASSUME NEW f, NEW S, IsFiniteSet(S)
  PROVE  \E sum : sum = [T \in SUBSET S |-> SumStep(sum, f, T)]
  <1> DEFINE Small(n) == {T \in SUBSET S : Cardinality(T) <= n}
             Sum(sum, n) == sum = [T \in Small(n) |-> SumStep(sum, f, T)]
             Bad == {n \in Nat : ~ \E sum : Sum(sum, n)}
  <1>1. \A T \in SUBSET S : IsFiniteSet(T) /\ Cardinality(T) \in Nat
                            /\ Cardinality(T) <= Cardinality(S)
    BY FS_Subset, FS_CardinalityType
  <1>2. Bad = {}
    <2>1. SUFFICES ASSUME Bad # {} PROVE FALSE
      OBVIOUS
    <2>2. PICK n \in Bad : \A m \in Bad : n <= m
      BY <2>1, LeastExists
    <2>3. CASE n = 0
      <3>1. Small(0) = {{}}
        BY <1>1, FS_EmptySet
      <3> DEFINE g == [T \in Small(0) |-> 0]
      <3>2. Sum(g, 0)
        BY <3>1 DEF SumStep
      <3>3. QED
        BY <2>2, <2>3, <3>2
    <2>4. CASE n # 0
      <3>1. n - 1 \in Nat /\ n - 1 \notin Bad
        <4>1. n \in Nat /\ n - 1 \in Nat /\ ~(n <= n - 1)
          BY <2>4
        <4> HIDE DEF Bad
        <4>2. QED
          BY <2>2, <4>1
      <3>2. PICK sum : Sum(sum, n - 1)
        BY <3>1
      <3> DEFINE g == [T \in Small(n) |-> SumStep(sum, f, T)]
      <3>3. ASSUME NEW T \in Small(n), T # {}
            PROVE  LET x == CHOOSE x \in T : TRUE
                   IN  T \ {x} \in Small(n - 1) /\ T \ {x} \in Small(n)
        <4> DEFINE x == CHOOSE x \in T : TRUE
        <4>1. x \in T
          BY <3>3
        <4>2. IsFiniteSet(T) /\ Cardinality(T) \in Nat /\ Cardinality(T) <= n
          BY <1>1
        <4> HIDE DEF x
        <4>3. Cardinality(T \ {x}) = Cardinality(T) - 1
          BY <4>1, <4>2, FS_RemoveElement
        <4>4. T \ {x} \in SUBSET S
          OBVIOUS
        <4>5. QED
          BY <3>1, <4>2, <4>3, <4>4 DEF x
      <3>4. \A T \in Small(n - 1) : T \in Small(n) /\ g[T] = sum[T]
        <4>1. \A T \in Small(n - 1) : T \in Small(n)
          BY <1>1, <3>1
        <4> HIDE DEF Small
        <4>2. QED
          BY <3>2, <4>1
      <3>5. ASSUME NEW T \in Small(n)
            PROVE  SumStep(sum, f, T) = SumStep(g, f, T)
        <4> HIDE DEF g, Small
        <4>1. CASE T = {}
          BY <4>1 DEF SumStep
        <4>2. CASE T # {}
          <5> DEFINE x == CHOOSE x \in T : TRUE
          <5>1. g[T \ {x}] = sum[T \ {x}]
            BY <3>3, <3>4, <4>2
          <5>2. QED
            BY <4>2, <5>1 DEF SumStep
        <4>3. QED
          BY <4>1, <4>2
      <3>6. Sum(g, n)
        <4> HIDE DEF Small
        <4>1. QED
          BY <3>5
      <3>7. QED
        BY <2>2, <3>6
    <2>5. QED
      BY <2>3, <2>4
  <1>3. Cardinality(S) \in Nat /\ Small(Cardinality(S)) = SUBSET S
    BY <1>1, FS_CardinalityType
  <1> HIDE DEF Small
  <1>4. PICK sum : Sum(sum, Cardinality(S))
    BY <1>2, <1>3
  <1>5. QED
    BY <1>3, <1>4

Sums(sum, f, S) == \A T \in SUBSET S : sum[T] = SumStep(sum, f, T)

(* Two sums that follow the fold agree on the sets both are defined on.    *)
LEMMA SumsAgree ==
  ASSUME NEW f, NEW S, IsFiniteSet(S), NEW T \in SUBSET S,
         NEW sum, Sums(sum, f, S), NEW part, Sums(part, f, T)
  PROVE  part[T] = sum[T]
  <1> DEFINE Bad == {n \in Nat : \E U \in SUBSET T :
                       Cardinality(U) = n /\ part[U] # sum[U]}
  <1>1. \A U \in SUBSET T : IsFiniteSet(U) /\ Cardinality(U) \in Nat
    BY FS_Subset, FS_CardinalityType
  <1>2. Bad = {}
    <2>1. SUFFICES ASSUME Bad # {} PROVE FALSE
      OBVIOUS
    <2>2. PICK n \in Bad : \A m \in Bad : n <= m
      BY <2>1, LeastExists
    <2>3. PICK U \in SUBSET T : Cardinality(U) = n /\ part[U] # sum[U]
      OBVIOUS
    <2>4. part[U] = SumStep(part, f, U) /\ sum[U] = SumStep(sum, f, U)
      BY DEF Sums
    <2>5. U # {}
      BY <2>3, <2>4 DEF SumStep
    <2> DEFINE x == CHOOSE x \in U : TRUE
    <2>6. x \in U
      BY <2>5
    <2> HIDE DEF x
    <2>7. U \ {x} \in SUBSET T /\ Cardinality(U \ {x}) = n - 1
      BY <1>1, <2>3, <2>6, FS_RemoveElement
    <2>8. n \in Nat /\ n - 1 \in Nat /\ ~(n <= n - 1)
      BY <1>1, <2>7
    <2>9. part[U \ {x}] = sum[U \ {x}]
      BY <2>2, <2>7, <2>8
    <2>10. QED
      BY <2>3, <2>4, <2>9 DEF SumStep, x
  <1>3. QED
    BY <1>1, <1>2

(* The sum over no element is zero; one element counts once, whichever it  *)
(* is.                                                                     *)
LEMMA SumFacts ==
  ASSUME NEW f, NEW S, IsFiniteSet(S), \A x \in S : f[x] \in Int
  PROVE  /\ SumFunctionOnSet(f, {}) = 0
         /\ SumFunctionOnSet(f, S) \in Int
         /\ \A x \in S : SumFunctionOnSet(f, S)
                            = f[x] + SumFunctionOnSet(f, S \ {x})
  <1>1. PICK sum : sum = [T \in SUBSET S |-> SumStep(sum, f, T)]
    BY SumExists
  <1>2. ASSUME NEW T \in SUBSET S
        PROVE  SumFunctionOnSet(f, T) = sum[T]
    <2> DEFINE part == CHOOSE p : p = [U \in SUBSET T |-> SumStep(p, f, U)]
    <2>1. IsFiniteSet(T)
      BY FS_Subset
    <2>2. part = [U \in SUBSET T |-> SumStep(part, f, U)]
      BY <2>1, SumExists
    <2>3. SumFunctionOnSet(f, T) = part[T]
      BY SumUnfold
    <2> HIDE DEF part
    <2>4. Sums(sum, f, S) /\ Sums(part, f, T)
      BY <1>1, <2>2 DEF Sums
    <2>5. part[T] = sum[T]
      BY <2>4, SumsAgree
    <2>6. QED
      BY <2>3, <2>5
  <1>3. \A T \in SUBSET S : IsFiniteSet(T) /\ Cardinality(T) \in Nat
    BY FS_Subset, FS_CardinalityType
  <1>4. sum[{}] = 0
    BY <1>1 DEF SumStep
  <1> DEFINE Good(T) == /\ sum[T] \in Int
                        /\ \A x \in T : sum[T] = f[x] + sum[T \ {x}]
             Bad == {n \in Nat : \E T \in SUBSET S : Cardinality(T) = n /\ ~Good(T)}
  <1>5. Bad = {}
    <2>1. SUFFICES ASSUME Bad # {} PROVE FALSE
      OBVIOUS
    <2>2. PICK n \in Bad : \A m \in Bad : n <= m
      BY <2>1, LeastExists
    <2>3. PICK T \in SUBSET S : Cardinality(T) = n /\ ~Good(T)
      OBVIOUS
    <2>4. sum[T] = SumStep(sum, f, T)
      BY <1>1
    <2>5. T # {}
      <3>1. Good({})
        BY <1>4
      <3> HIDE DEF Good
      <3>2. QED
        BY <2>3, <3>1
    <2> DEFINE c == CHOOSE x \in T : TRUE
    <2>6. c \in T /\ sum[T] = f[c] + sum[T \ {c}]
      BY <2>4, <2>5 DEF SumStep
    <2> HIDE DEF c, Good
    <2>7. ASSUME NEW x \in T
          PROVE  Good(T \ {x})
      <3>1. T \ {x} \in SUBSET S /\ Cardinality(T \ {x}) = n - 1
        BY <1>3, <2>3, FS_RemoveElement
      <3>2. n \in Nat /\ n - 1 \in Nat /\ ~(n <= n - 1)
        BY <1>3, <3>1
      <3>3. QED
        BY <2>2, <3>1, <3>2
    <2>8. sum[T] \in Int
      BY <2>6, <2>7 DEF Good
    <2>9. ASSUME NEW x \in T
          PROVE  sum[T] = f[x] + sum[T \ {x}]
      <3>1. CASE x = c
        BY <2>6, <3>1
      <3>2. CASE x # c
        <4>1. x \in T \ {c} /\ c \in T \ {x}
          BY <2>6, <3>2
        <4>2. sum[T \ {c}] = f[x] + sum[(T \ {c}) \ {x}]
          BY <2>6, <2>7, <4>1 DEF Good
        <4>3. sum[T \ {x}] = f[c] + sum[(T \ {x}) \ {c}]
          BY <2>7, <4>1 DEF Good
        <4>4. (T \ {c}) \ {x} = (T \ {x}) \ {c}
          OBVIOUS
        <4>5. sum[(T \ {c}) \ {x}] \in Int
          <5>1. (T \ {c}) \ {x} \in SUBSET S
            OBVIOUS
          <5>2. Cardinality((T \ {c}) \ {x}) = n - 2
            <6>1. Cardinality(T \ {c}) = n - 1 /\ IsFiniteSet(T \ {c})
              BY <1>3, <2>3, <2>6, FS_RemoveElement
            <6>2. n \in Int
              BY <1>3, <2>3
            <6> DEFINE V == T \ {c}
            <6>3. x \in V /\ IsFiniteSet(V) /\ Cardinality(V) = n - 1
              BY <4>1, <6>1
            <6> HIDE DEF V
            <6>4. Cardinality(V \ {x}) = (n - 1) - 1
              BY <6>3, FS_RemoveElement
            <6>5. QED
              BY <6>2, <6>4 DEF V
          <5>3. n \in Nat /\ n - 2 \in Nat /\ ~(n <= n - 2)
            BY <1>3, <5>1, <5>2
          <5>4. Good((T \ {c}) \ {x})
            BY <2>2, <5>1, <5>2, <5>3
          <5>5. QED
            BY <5>4 DEF Good
        <4>6. f[x] \in Int /\ f[c] \in Int
          BY <2>6
        <4> DEFINE rest == sum[(T \ {c}) \ {x}]
        <4>7. rest \in Int /\ sum[T] = f[c] + (f[x] + rest)
          BY <2>6, <4>2, <4>5
        <4>8. sum[T \ {x}] = f[c] + rest
          BY <4>3, <4>4
        <4> HIDE DEF rest
        <4>9. f[c] + (f[x] + rest) = f[x] + (f[c] + rest)
          BY <4>6, <4>7
        <4>10. QED
          BY <4>7, <4>8, <4>9
      <3>3. QED
        BY <3>1, <3>2
    <2>10. QED
      BY <2>3, <2>8, <2>9 DEF Good
  <1>6. \A T \in SUBSET S : Good(T)
    BY <1>3, <1>5
  <1>7. {} \in SUBSET S /\ S \in SUBSET S /\ \A x \in S : S \ {x} \in SUBSET S
    OBVIOUS
  <1>8. QED
    BY <1>2, <1>4, <1>6, <1>7

(* The sum over two sets without common elements is the sum of their sums. *)
LEMMA SumOfUnion ==
  ASSUME NEW f, NEW S, NEW T, IsFiniteSet(S), IsFiniteSet(T),
         \A x \in S \union T : f[x] \in Int, S \intersect T = {}
  PROVE  SumFunctionOnSet(f, S \union T)
           = SumFunctionOnSet(f, S) + SumFunctionOnSet(f, T)
  <1> DEFINE Bad == {n \in Nat : \E U \in SUBSET T :
                       /\ Cardinality(U) = n
                       /\ SumFunctionOnSet(f, S \union U)
                            # SumFunctionOnSet(f, S) + SumFunctionOnSet(f, U)}
  <1>1. \A U \in SUBSET T : /\ IsFiniteSet(U) /\ Cardinality(U) \in Nat
                            /\ IsFiniteSet(S \union U)
    BY FS_Subset, FS_CardinalityType, FS_Union
  <1>2. \A U \in SUBSET T : SumFunctionOnSet(f, U) \in Int
    BY <1>1, SumFacts
  <1>3. SumFunctionOnSet(f, S) \in Int /\ SumFunctionOnSet(f, {}) = 0
    BY SumFacts
  <1>4. Bad = {}
    <2>1. SUFFICES ASSUME Bad # {} PROVE FALSE
      OBVIOUS
    <2>2. PICK n \in Bad : \A m \in Bad : n <= m
      BY <2>1, LeastExists
    <2>3. PICK U \in SUBSET T :
            /\ Cardinality(U) = n
            /\ SumFunctionOnSet(f, S \union U)
                 # SumFunctionOnSet(f, S) + SumFunctionOnSet(f, U)
      OBVIOUS
    <2>4. U # {}
      <3>1. ASSUME U = {} PROVE FALSE
        <4>1. S \union U = S
          BY <3>1
        <4>2. QED
          BY <1>3, <2>3, <3>1, <4>1
      <3>2. QED
        BY <3>1
    <2>5. PICK x \in U : TRUE
      BY <2>4
    <2> DEFINE V == U \ {x}
    <2>6. V \in SUBSET T /\ Cardinality(V) = n - 1
      BY <1>1, <2>3, FS_RemoveElement
    <2>7. n \in Nat /\ n - 1 \in Nat /\ ~(n <= n - 1)
      <3>1. n \in Nat /\ Cardinality(V) \in Nat
        BY <1>1, <2>3, <2>6
      <3>2. n - 1 \in Nat
        BY <2>6, <3>1
      <3> HIDE DEF Bad, V
      <3>3. QED
        BY <3>1, <3>2
    <2>8. SumFunctionOnSet(f, S \union V)
            = SumFunctionOnSet(f, S) + SumFunctionOnSet(f, V)
      BY <2>2, <2>6, <2>7
    <2>9. SumFunctionOnSet(f, U) = f[x] + SumFunctionOnSet(f, V)
      <3>1. IsFiniteSet(U) /\ \A y \in U : f[y] \in Int
        BY <1>1
      <3> HIDE DEF Bad
      <3>2. QED
        BY <3>1, SumFacts
    <2>10. SumFunctionOnSet(f, S \union U) = f[x] + SumFunctionOnSet(f, S \union V)
      <3>1. x \in S \union U /\ IsFiniteSet(S \union U)
            /\ \A y \in S \union U : f[y] \in Int
        BY <1>1
      <3>2. (S \union U) \ {x} = S \union V
        OBVIOUS
      <3>3. SumFunctionOnSet(f, S \union U)
              = f[x] + SumFunctionOnSet(f, (S \union U) \ {x})
        BY <3>1, SumFacts
      <3>4. QED
        BY <3>2, <3>3
    <2>11. f[x] \in Int /\ SumFunctionOnSet(f, V) \in Int
      BY <1>2, <2>6
    <2>12. QED
      BY <1>3, <2>3, <2>8, <2>9, <2>10, <2>11
  <1>5. T \in SUBSET T /\ Cardinality(T) \in Nat
    BY <1>1
  <1>6. QED
    BY <1>4, <1>5

(* The sum depends only on the values at the elements of the set. *)
LEMMA SumCongruent ==
  ASSUME NEW f, NEW g, NEW S, IsFiniteSet(S),
         \A x \in S : f[x] \in Int /\ g[x] = f[x]
  PROVE  SumFunctionOnSet(g, S) = SumFunctionOnSet(f, S)
  <1> DEFINE Bad == {n \in Nat : \E U \in SUBSET S :
                       /\ Cardinality(U) = n
                       /\ SumFunctionOnSet(g, U) # SumFunctionOnSet(f, U)}
  <1>1. \A U \in SUBSET S : IsFiniteSet(U) /\ Cardinality(U) \in Nat
    BY FS_Subset, FS_CardinalityType
  <1>2. Bad = {}
    <2>1. SUFFICES ASSUME Bad # {} PROVE FALSE
      OBVIOUS
    <2>2. PICK n \in Bad : \A m \in Bad : n <= m
      BY <2>1, LeastExists
    <2>3. PICK U \in SUBSET S :
            /\ Cardinality(U) = n
            /\ SumFunctionOnSet(g, U) # SumFunctionOnSet(f, U)
      OBVIOUS
    <2>4. /\ \A x \in U : f[x] \in Int
          /\ \A x \in U : g[x] \in Int
          /\ IsFiniteSet(U)
      BY <1>1
    <2>5. U # {}
      <3>1. SumFunctionOnSet(g, {}) = 0 /\ SumFunctionOnSet(f, {}) = 0
        BY <2>4, SumFacts
      <3>2. QED
        BY <2>3, <3>1
    <2>6. PICK x \in U : TRUE
      BY <2>5
    <2> DEFINE V == U \ {x}
    <2>7. V \in SUBSET S /\ Cardinality(V) = n - 1
      BY <1>1, <2>3, FS_RemoveElement
    <2>8. n \in Nat /\ n - 1 \in Nat /\ ~(n <= n - 1)
      BY <1>1, <2>7
    <2>9. SumFunctionOnSet(g, V) = SumFunctionOnSet(f, V)
      BY <2>2, <2>7, <2>8
    <2>10. /\ SumFunctionOnSet(f, U) = f[x] + SumFunctionOnSet(f, V)
           /\ SumFunctionOnSet(g, U) = g[x] + SumFunctionOnSet(g, V)
      BY <2>4, SumFacts
    <2>11. QED
      BY <2>3, <2>9, <2>10
  <1>3. S \in SUBSET S /\ Cardinality(S) \in Nat
    BY <1>1
  <1>4. QED
    BY <1>2, <1>3

-----------------------------------------------------------------------------
(* The cycles of a span of days, in order. *)

LEMMA CyclesEnumerated ==
  ASSUME NEW from \in Nat, NEW until \in Nat
  PROVE  LET L == get_cycle_dates(from, until)
         IN  /\ Len(L) \in Nat
             /\ \A i \in 1..Len(L) :
                  L[i] \in CycleDays /\ from <= L[i] /\ L[i] <= until
             /\ \A c \in CycleDays : from <= c /\ c <= until =>
                  \E i \in 1..Len(L) : L[i] = c
             /\ \A i, j \in 1..Len(L) : i < j => L[i] < L[j]
  <1> DEFINE S == {c \in CycleDays : from <= c /\ c <= until}
             L == get_cycle_dates(from, until)
             n == Cardinality(S)
             Below(c) == {b \in S : b < c}
             rank == [c \in S |-> Cardinality(Below(c)) + 1]
  <1>1. S \in SUBSET Nat /\ IsFiniteSet(S) /\ n \in Nat
    <2>1. S \in SUBSET Nat /\ \A s \in S : s <= until
      BY CyclesAssumption
    <2> HIDE DEF S
    <2>2. QED
      BY <2>1, FS_BoundedSetOfNaturals, FS_CardinalityType
  <1>2. L = [i \in 1..n |-> CHOOSE c \in S : Cardinality(Below(c)) = i - 1]
    BY DEF get_cycle_dates
  <1> HIDE DEF S, L
  <1>3. \A c \in S : /\ Below(c) \in SUBSET S /\ IsFiniteSet(Below(c))
                     /\ Cardinality(Below(c)) \in Nat
    BY <1>1, FS_Subset, FS_CardinalityType
  <1>4. ASSUME NEW c \in S
        PROVE  Cardinality(Below(c)) < n
    <2>1. Below(c) # S /\ Below(c) \in SUBSET S
      BY <1>1
    <2>2. Cardinality(Below(c)) <= n /\ Cardinality(Below(c)) # n
      BY <1>1, <2>1, FS_Subset
    <2>3. QED
      BY <1>1, <1>3, <2>2
  <1>5. ASSUME NEW c \in S, NEW d \in S, c < d
        PROVE  Cardinality(Below(c)) < Cardinality(Below(d))
    <2>1. Below(c) \in SUBSET Below(d) /\ Below(c) # Below(d)
      <3>1. \A b \in S : b < c => b < d
        BY <1>1, <1>5
      <3>2. c \in Below(d) /\ c \notin Below(c)
        BY <1>1, <1>5
      <3>3. QED
        BY <3>1, <3>2
    <2>2. /\ Cardinality(Below(c)) <= Cardinality(Below(d))
          /\ Cardinality(Below(c)) # Cardinality(Below(d))
      BY <1>3, <2>1, FS_Subset
    <2>3. QED
      BY <1>3, <2>2
  <1> HIDE DEF Below
  <1>6. rank \in [S -> 1..n]
    BY <1>1, <1>3, <1>4
  <1>7. \A c, d \in S : rank[c] = rank[d] => c = d
    BY <1>1, <1>3, <1>5
  <1>8. rank \in Surjection(S, 1..n)
    <2>1. rank \in Injection(S, 1..n)
      BY <1>6, <1>7 DEF Injection, IsInjective
    <2>2. IsFiniteSet(1..n) /\ Cardinality(1..n) = n
      BY <1>1, FS_Interval
    <2> HIDE DEF rank
    <2>3. QED
      BY <2>1, <2>2, FS_Injection
  <1>9. ASSUME NEW i \in 1..n
        PROVE  /\ L[i] \in S /\ Cardinality(Below(L[i])) = i - 1
               /\ \A c \in S : Cardinality(Below(c)) = i - 1 => c = L[i]
    <2>1. PICK c \in S : rank[c] = i
      BY <1>8 DEF Surjection
    <2>2. Cardinality(Below(c)) = i - 1
      BY <1>1, <1>3, <2>1
    <2>3. L[i] = CHOOSE x \in S : Cardinality(Below(x)) = i - 1
      BY <1>2
    <2>4. L[i] \in S /\ Cardinality(Below(L[i])) = i - 1
      BY <2>2, <2>3
    <2>5. \A x \in S : Cardinality(Below(x)) = i - 1 => x = L[i]
      BY <1>3, <1>7, <2>4
    <2>6. QED
      BY <2>4, <2>5
  <1>10. Len(L) = n /\ L \in [1..n -> S]
    <2>1. DOMAIN L = 1..n /\ L = [i \in 1..n |-> L[i]]
      BY <1>2
    <2>2. L \in [1..n -> S]
      BY <1>9, <2>1
    <2>3. QED
      BY <1>1, <2>2
  <1>11. \A c \in S : \E i \in 1..n : L[i] = c
    <2>1. SUFFICES ASSUME NEW c \in S PROVE \E i \in 1..n : L[i] = c
      OBVIOUS
    <2>2. Cardinality(Below(c)) + 1 \in 1..n
      BY <1>1, <1>3, <1>4
    <2>3. Cardinality(Below(c)) = (Cardinality(Below(c)) + 1) - 1
      BY <1>3
    <2>4. QED
      BY <1>9, <2>2, <2>3
  <1>12. \A i, j \in 1..n : i < j => L[i] < L[j]
    <2>1. SUFFICES ASSUME NEW i \in 1..n, NEW j \in 1..n, i < j, ~(L[i] < L[j])
                   PROVE  FALSE
      OBVIOUS
    <2>2. L[i] \in S /\ L[j] \in S /\ L[i] \in Nat /\ L[j] \in Nat
      BY <1>1, <1>9
    <2>3. L[j] < L[i] \/ L[i] = L[j]
      BY <2>1, <2>2
    <2>4. Cardinality(Below(L[j])) < Cardinality(Below(L[i])) \/ L[i] = L[j]
      BY <1>5, <2>2, <2>3
    <2>5. Cardinality(Below(L[j])) = j - 1 /\ Cardinality(Below(L[i])) = i - 1
      BY <1>9
    <2>6. QED
      BY <1>1, <2>1, <2>4, <2>5
  <1>13. QED
    BY <1>1, <1>10, <1>11, <1>12 DEF S, L

-----------------------------------------------------------------------------
(* The cycles and the rows of a projection. *)

(* What the row of cycle i starts from. *)
OpeningOf(acct, anchor, rows, i) ==
  IF i = 1 THEN OpeningBalance(acct.borrow, anchor) ELSE rows[i - 1].closing

(* rows are the first n rows of the projection over these cycles. *)
ProjectedRows(rows, n, acct, pays, anchor, cycles) ==
  /\ DOMAIN rows = 1..n /\ Len(rows) = n /\ (n = 0 => rows = <<>>)
  /\ \A i \in 1..n : rows[i] = LedgerRow(acct, pays, anchor, cycles, i,
                                         OpeningOf(acct, anchor, rows, i))

(* project_ledger gives one row per cycle, each chained from the one       *)
(* before it.                                                              *)
LEMMA ProjectionFollowsCycles ==
  ASSUME NEW acct, NEW pays, NEW until, NEW anchor,
         Len(LedgerCycles(acct, until, anchor)) \in Nat
  PROVE  LET cycles == LedgerCycles(acct, until, anchor)
         IN  ProjectedRows(project_ledger(acct, pays, until, anchor),
                           Len(cycles), acct, pays, anchor, cycles)
  <1> DEFINE cycles == LedgerCycles(acct, until, anchor)
             n == Len(cycles)
             Next1(prior, i) ==
               LET opening == IF i = 1 THEN OpeningBalance(acct.borrow, anchor)
                                       ELSE prior[i - 1].closing
               IN  Append(prior, LedgerRow(acct, pays, anchor, cycles, i, opening))
             Step(f, i) == IF i = 0 THEN <<>> ELSE Next1(f[i - 1], i)
             rows == CHOOSE f : f = [i \in 0..n |-> Step(f, i)]
             Bad == {m \in Nat : ~ \E f : f = [i \in 0..m |-> Step(f, i)]}
  <1>1. project_ledger(acct, pays, until, anchor) = rows[n]
    BY DEF project_ledger
  <1> HIDE DEF Next1, cycles
  <1>2. Bad = {}
    <2>1. SUFFICES ASSUME Bad # {} PROVE FALSE
      OBVIOUS
    <2>2. PICK m \in Bad : \A k \in Bad : m <= k
      BY <2>1, LeastExists
    <2>3. CASE m = 0
      <3> DEFINE g == [i \in 0..0 |-> <<>>]
      <3>1. g = [i \in 0..0 |-> Step(g, i)]
        OBVIOUS
      <3>2. QED
        BY <2>2, <2>3, <3>1
    <2>4. CASE m # 0
      <3>1. m \in Nat /\ m - 1 \in Nat /\ m - 1 \notin Bad
        <4>1. m \in Nat /\ m - 1 \in Nat /\ ~(m <= m - 1)
          BY <2>4
        <4> HIDE DEF Bad
        <4>2. QED
          BY <2>2, <4>1
      <3>2. PICK f : f = [i \in 0..(m - 1) |-> Step(f, i)]
        BY <3>1
      <3> DEFINE g == [i \in 0..m |-> Step(f, i)]
      <3>3. \A i \in 0..(m - 1) : g[i] = f[i]
        BY <3>1, <3>2
      <3>4. ASSUME NEW i \in 0..m
            PROVE  Step(f, i) = Step(g, i)
        <4>1. i # 0 => i - 1 \in 0..(m - 1)
          BY <3>1
        <4> HIDE DEF g
        <4>2. i # 0 => g[i - 1] = f[i - 1]
          BY <3>3, <4>1
        <4>3. QED
          BY <4>2
      <3>5. g = [i \in 0..m |-> Step(g, i)]
        BY <3>4
      <3>6. QED
        BY <2>2, <3>5
    <2>5. QED
      BY <2>3, <2>4
  <1>3. n \in Nat
    BY DEF cycles
  <1>4. rows = [i \in 0..n |-> Step(rows, i)]
    BY <1>2, <1>3
  <1> HIDE DEF rows
  <1> DEFINE Good(m) == ProjectedRows(rows[m], m, acct, pays, anchor, cycles)
             Wrong == {m \in 0..n : ~Good(m)}
  <1>5. Wrong = {}
    <2>1. SUFFICES ASSUME Wrong # {} PROVE FALSE
      OBVIOUS
    <2>2. PICK m \in Wrong : \A k \in Wrong : m <= k
      <3>1. Wrong \in SUBSET Nat
        BY <1>3
      <3> HIDE DEF Wrong
      <3>2. QED
        BY <2>1, <3>1, LeastExists
    <2>3. rows[m] = Step(rows, m) /\ m \in 0..n /\ ~Good(m)
      BY <1>4
    <2>4. CASE m = 0
      BY <2>3, <2>4 DEF ProjectedRows
    <2>5. CASE m # 0
      <3>1. m - 1 \in 0..n /\ ~(m <= m - 1)
        BY <1>3, <2>3, <2>5
      <3>2. Good(m - 1)
        BY <2>2, <3>1
      <3> DEFINE prior == rows[m - 1]
                 new == LedgerRow(acct, pays, anchor, cycles, m,
                          IF m = 1 THEN OpeningBalance(acct.borrow, anchor)
                                   ELSE prior[m - 1].closing)
      <3>3. rows[m] = Append(prior, new)
        BY <2>3, <2>5 DEF Next1
      <3> HIDE DEF prior, new
      <3>4. /\ DOMAIN prior = 1..(m - 1) /\ Len(prior) = m - 1
            /\ \A i \in 1..(m - 1) :
                 prior[i] = LedgerRow(acct, pays, anchor, cycles, i,
                                      OpeningOf(acct, anchor, prior, i))
        BY <3>2 DEF ProjectedRows, prior
      <3>5. /\ DOMAIN rows[m] = 1..m /\ Len(rows[m]) = m
            /\ \A i \in 1..(m - 1) : rows[m][i] = prior[i]
            /\ rows[m][m] = new
        BY <2>3, <3>1, <3>3, <3>4
      <3>6. \A i \in 1..m : OpeningOf(acct, anchor, rows[m], i)
                              = OpeningOf(acct, anchor, prior, i)
        BY <2>3, <3>1, <3>5 DEF OpeningOf
      <3>7. new = LedgerRow(acct, pays, anchor, cycles, m,
                            OpeningOf(acct, anchor, prior, m))
        BY DEF new, OpeningOf
      <3>8. Good(m)
        BY <2>3, <3>1, <3>4, <3>5, <3>6, <3>7 DEF ProjectedRows
      <3>9. QED
        BY <2>3, <3>8
    <2>6. QED
      BY <2>4, <2>5
  <1>6. Good(n)
    BY <1>3, <1>5
  <1>7. QED
    BY <1>1, <1>6 DEF cycles

(* The day a balance is shown for is not before today or any payment.      *)
LEMMA AsOfBounds ==
  ASSUME HistoryTyped
  PROVE  LET as_of == balance_as_of(payments, today)
         IN  /\ as_of \in Nat /\ today <= as_of
             /\ \A p \in Recorded : payments[p].date <= as_of
  <1> DEFINE S == {today} \union {payments[p].date : p \in Recorded}
  <1>1. LastDay \in Nat /\ \A s \in S : s \in Nat /\ s <= LastDay
    BY LedgerAssumption DEF HistoryTyped, Payment, Days
  <1>2. S \in SUBSET Nat /\ S # {}
    BY <1>1
  <1>3. balance_as_of(payments, today) = Max(S)
    BY DEF balance_as_of, Recorded
  <1>4. today \in S /\ \A p \in Recorded : payments[p].date \in S
    OBVIOUS
  <1> HIDE DEF S
  <1>5. PICK m \in S : \A s \in S : s <= m
    BY <1>1, <1>2, GreatestExists
  <1>6. \A s \in S : m >= s
    BY <1>2, <1>5
  <1>7. Max(S) \in S /\ \A s \in S : Max(S) >= s
    BY <1>6 DEF Max
  <1>8. QED
    BY <1>2, <1>3, <1>4, <1>7

(* The latest date of an import is that of the import the anchor is from.  *)
LEMMA LastImportDate ==
  ASSUME HistoryTyped, NEW x \in Recorded, Imported(x),
         \A k \in Recorded : Imported(k) => payments[k].date <= payments[x].date
  PROVE  Max({payments[i].date : i \in {p \in Recorded : Imported(p)}})
           = payments[x].date
  <1> DEFINE S == {payments[i].date : i \in {p \in Recorded : Imported(p)}}
  <1>1. payments[x].date \in S /\ \A s \in S : s \in Nat /\ payments[x].date >= s
    BY LedgerAssumption DEF HistoryTyped, Payment, Days
  <1> HIDE DEF S
  <1>2. Max(S) \in S /\ \A s \in S : Max(S) >= s
    BY <1>1 DEF Max
  <1>3. Max(S) = payments[x].date
    BY <1>1, <1>2
  <1>4. QED
    BY <1>3 DEF S

(* rows has a row for every cycle from day "from" to day "until", in order. *)
CoversCycles(rows, from, until) ==
  /\ Len(rows) \in Nat /\ DOMAIN rows = 1..Len(rows)
  /\ \A i \in 1..Len(rows) :
       /\ rows[i].cycle_date \in CycleDays
       /\ from <= rows[i].cycle_date /\ rows[i].cycle_date <= until
  /\ \A c \in CycleDays : from <= c /\ c <= until =>
       \E i \in 1..Len(rows) : rows[i].cycle_date = c
  /\ \A i, j \in 1..Len(rows) : i < j => rows[i].cycle_date < rows[j].cycle_date

(* A projection has one row for each cycle after its origin. *)
LEMMA ProjectionDates ==
  ASSUME NEW acct, NEW pays, NEW until \in Nat, NEW anchor,
         acct.start \in Nat, anchor.some \in BOOLEAN, anchor.some => anchor.date \in Nat,
         NEW from, from = Origin(acct.start, anchor) + (IF anchor.some THEN 1 ELSE 0)
  PROVE  LET rows == project_ledger(acct, pays, until, anchor)
         IN  /\ CoversCycles(rows, from, until)
             /\ Len(LedgerCycles(acct, until, anchor)) = Len(rows)
             /\ ProjectedRows(rows, Len(rows), acct, pays, anchor,
                              LedgerCycles(acct, until, anchor))
  <1> DEFINE cycles == LedgerCycles(acct, until, anchor)
             rows == project_ledger(acct, pays, until, anchor)
  <1>1. from \in Nat
    BY DEF Origin
  <1>2. cycles = get_cycle_dates(from, until)
    BY DEF LedgerCycles
  <1> HIDE DEF cycles
  <1>3. /\ Len(cycles) \in Nat
        /\ \A i \in 1..Len(cycles) : /\ cycles[i] \in CycleDays
                                     /\ from <= cycles[i] /\ cycles[i] <= until
        /\ \A c \in CycleDays : from <= c /\ c <= until =>
             \E i \in 1..Len(cycles) : cycles[i] = c
        /\ \A i, j \in 1..Len(cycles) : i < j => cycles[i] < cycles[j]
    <2> DEFINE L == get_cycle_dates(from, until)
    <2>1. /\ Len(L) \in Nat
          /\ \A i \in 1..Len(L) :
               L[i] \in CycleDays /\ from <= L[i] /\ L[i] <= until
          /\ \A c \in CycleDays : from <= c /\ c <= until =>
               \E i \in 1..Len(L) : L[i] = c
          /\ \A i, j \in 1..Len(L) : i < j => L[i] < L[j]
      BY <1>1, CyclesEnumerated
    <2> HIDE DEF L
    <2>2. cycles = L
      BY <1>2 DEF L
    <2>3. QED
      BY <2>1, <2>2
  <1>4. ProjectedRows(rows, Len(cycles), acct, pays, anchor, cycles)
    BY <1>3, ProjectionFollowsCycles DEF cycles
  <1> HIDE DEF rows
  <1>5. /\ DOMAIN rows = 1..Len(cycles) /\ Len(rows) = Len(cycles)
        /\ \A i \in 1..Len(cycles) : rows[i].cycle_date = cycles[i]
    BY <1>4 DEF ProjectedRows, LedgerRow
  <1>6. QED
    BY <1>3, <1>4, <1>5 DEF rows, cycles, CoversCycles

(* After an import, a replay charges the cycles after both the import and  *)
(* the cycle nearest to it, all of them and no other, whatever the         *)
(* calendar and the history.                                               *)
THEOREM SettledCycleNeverChargedAgain == Spec => []SettledCycleNotChargedAgain
  <1>1. HistoryTyped => SettledCycleNotChargedAgain
    <2> DEFINE Anchor(order) == ledger_anchor(payments, snap, order)
               as_of == balance_as_of(payments, today)
               last  == Max({payments[i].date : i \in {p \in Recorded : Imported(p)}})
               Charged(order) ==
                 LET rows == project_ledger(account, payments, as_of, Anchor(order))
                 IN  {rows[i].cycle_date : i \in DOMAIN rows}
               After == {c \in CycleDays : /\ c > last /\ c > nearest_cycle_date(last)
                                           /\ c <= as_of}
    <2>1. SUFFICES ASSUME HistoryTyped, Exists, NEW order \in Chronological(payments),
                          Anchor(order).some
                   PROVE  Charged(order) = After
      BY DEF SettledCycleNotChargedAgain, AsReturned
    <2>2. PICK i \in Recorded : Imported(i)
      BY <2>1, NoImportNoAnchor DEF NoAnchor
    <2>3. PICK x \in Recorded :
            /\ Imported(x)
            /\ Anchor(order) = AnchorAt(payments[x].date, snap[x].after)
            /\ \A k \in Recorded : Imported(k) => payments[k].date <= payments[x].date
      BY <2>1, <2>2, LastImport
    <2>4. last = payments[x].date
      BY <2>1, <2>3, LastImportDate
    <2>5. last \in Days /\ last \in Nat
      BY <2>1, <2>4, LedgerAssumption DEF HistoryTyped, Payment, Days
    <2>6. /\ Anchor(order).some = TRUE
          /\ Anchor(order).date = AnchorDate(last)
          /\ Anchor(order).date \in Nat
      BY <2>3, <2>4, <2>5, AnchorBounds DEF AnchorAt
    <2>7. as_of \in Nat /\ account.start \in Nat
      BY <2>1, AsOfBounds, LedgerAssumption DEF HistoryTyped, Days
    <2> HIDE DEF Anchor, as_of, last
    <2> DEFINE anchor == Anchor(order)
               rows == project_ledger(account, payments, as_of, anchor)
    <2>8. /\ DOMAIN rows = 1..Len(rows)
          /\ \A k \in 1..Len(rows) :
               /\ rows[k].cycle_date \in CycleDays
               /\ AnchorDate(last) + 1 <= rows[k].cycle_date
               /\ rows[k].cycle_date <= as_of
          /\ \A c \in CycleDays : AnchorDate(last) + 1 <= c /\ c <= as_of =>
               \E k \in 1..Len(rows) : rows[k].cycle_date = c
      <3>1. Origin(account.start, anchor) + (IF anchor.some THEN 1 ELSE 0)
              = AnchorDate(last) + 1
        BY <2>6 DEF Origin
      <3> HIDE DEF anchor
      <3>2. anchor.some \in BOOLEAN /\ (anchor.some => anchor.date \in Nat)
        BY <2>6 DEF anchor
      <3>3. CoversCycles(rows, AnchorDate(last) + 1, as_of)
        BY <2>7, <3>1, <3>2, ProjectionDates
      <3>4. QED
        BY <3>3 DEF CoversCycles
    <2>9. \A c \in CycleDays :
            AnchorDate(last) + 1 <= c <=> c > last /\ c > nearest_cycle_date(last)
      <3>1. CycleDays \subseteq Nat /\ AnchorDate(last) \in Nat
        BY <2>6, CyclesAssumption
      <3>2. nearest_cycle_date(last) \in Nat
        BY <2>5, NextCycle, PreviousCycle DEF nearest_cycle_date
      <3>3. AnchorDate(last) = IF last >= nearest_cycle_date(last) THEN last
                                                        ELSE nearest_cycle_date(last)
        BY DEF AnchorDate, LargerOf
      <3>4. QED
        BY <2>5, <3>1, <3>2, <3>3
    <2> HIDE DEF rows
    <2>10. \A c : c \in {rows[k].cycle_date : k \in DOMAIN rows} <=> c \in After
      <3>1. ASSUME NEW c \in {rows[k].cycle_date : k \in DOMAIN rows}
            PROVE  c \in After
        BY <2>8, <2>9
      <3>2. ASSUME NEW c \in After
            PROVE  c \in {rows[k].cycle_date : k \in DOMAIN rows}
        BY <2>8, <2>9
      <3>3. QED
        BY <3>1, <3>2
    <2>11. QED
      BY <2>10 DEF rows
  <1>2. QED
    BY <1>1, LedgerTyped, PTL

-----------------------------------------------------------------------------
(* The arithmetic stays in the integers. *)

Money == [before : Int, interest : Int, after : Int]

(* What the arithmetic needs of an account, a history and an anchor.       *)
Terms(acct) == acct.borrow \in Int /\ acct.rate \in Nat /\ acct.start \in Nat

Counted(pays) ==
  /\ IsFiniteSet(DOMAIN pays)
  /\ \A p \in DOMAIN pays : pays[p].amount \in Int /\ pays[p].date \in Nat

AnchorTyped(anchor) ==
  /\ anchor.some \in BOOLEAN
  /\ anchor.some => anchor.date \in Nat /\ anchor.balance \in Int

LEMMA AmountIsInt ==
  ASSUME NEW pays, Counted(pays), NEW ids \in SUBSET DOMAIN pays
  PROVE  AmountOf(pays, ids) \in Int
  <1> DEFINE amount == [p \in DOMAIN pays |-> pays[p].amount]
  <1>1. IsFiniteSet(ids) /\ \A p \in ids : amount[p] \in Int
    BY FS_Subset DEF Counted
  <1> HIDE DEF amount
  <1>2. SumFunctionOnSet(amount, ids) \in Int
    BY <1>1, SumFacts
  <1>3. QED
    BY <1>2 DEF AmountOf, amount

LEMMA InterestIsInt ==
  ASSUME NEW balance \in Int, NEW rate \in Nat
  PROVE  InterestOn(balance, rate) \in Int
  <1>1. balance * rate \in Int
    OBVIOUS
  <1>2. ASSUME NEW n \in Int PROVE RoundHalfUp(n, RateScale) \in Int
    BY DEF RoundHalfUp, RateScale
  <1>3. QED
    BY <1>1, <1>2 DEF InterestOn

LEMMA OpeningIsInt ==
  ASSUME NEW acct, Terms(acct), NEW anchor, AnchorTyped(anchor)
  PROVE  OpeningBalance(acct.borrow, anchor) \in Int
  BY DEF AnchorTyped, Terms, OpeningBalance

LEMMA PeriodWithin ==
  ASSUME NEW acct, NEW pays, NEW anchor, NEW cycles, NEW i
  PROVE  PeriodPayments(acct, pays, anchor, cycles, i) \in SUBSET DOMAIN pays
  BY DEF PeriodPayments, AfterAnchor

(* Every amount of a projection is a whole number of cents. *)
LEMMA RowsAreInt ==
  ASSUME NEW acct, Terms(acct), NEW pays, Counted(pays), NEW anchor, AnchorTyped(anchor),
         NEW cycles, NEW n \in Nat, NEW rows,
         ProjectedRows(rows, n, acct, pays, anchor, cycles)
  PROVE  \A i \in 1..n : rows[i].opening \in Int /\ rows[i].interest \in Int
                         /\ rows[i].closing \in Int
  <1> DEFINE Good(i) == rows[i].opening \in Int /\ rows[i].interest \in Int
                         /\ rows[i].closing \in Int
             Bad == {i \in 1..n : ~Good(i)}
  <1>1. Bad = {}
    <2>1. SUFFICES ASSUME Bad # {} PROVE FALSE
      OBVIOUS
    <2>2. PICK i \in Bad : \A k \in Bad : i <= k
      <3>1. Bad \in SUBSET Nat
        OBVIOUS
      <3> HIDE DEF Bad
      <3>2. QED
        BY <2>1, <3>1, LeastExists
    <2> DEFINE opening == OpeningOf(acct, anchor, rows, i)
               interest == InterestOn(opening, acct.rate)
               paid == AmountOf(pays, PeriodPayments(acct, pays, anchor, cycles, i))
    <2>3. opening \in Int
      <3>1. CASE i = 1
        BY <3>1, OpeningIsInt DEF OpeningOf
      <3>2. CASE i # 1
        <4>1. i - 1 \in 1..n /\ ~(i <= i - 1)
          BY <3>2
        <4>2. Good(i - 1)
          BY <2>2, <4>1
        <4>3. QED
          BY <3>2, <4>2 DEF OpeningOf
      <3>3. QED
        BY <3>1, <3>2
    <2>4. rows[i] = [cycle_date |-> cycles[i], opening |-> opening,
                     interest |-> interest, closing |-> opening + interest - paid]
      <3>1. i \in 1..n
        OBVIOUS
      <3> HIDE DEF Bad
      <3>2. QED
        BY <3>1 DEF ProjectedRows, LedgerRow
    <2> HIDE DEF opening
    <2>5. interest \in Int
      BY <2>3, InterestIsInt DEF Terms
    <2>6. paid \in Int
      BY PeriodWithin, AmountIsInt
    <2> HIDE DEF interest, paid
    <2>7. Good(i)
      BY <2>3, <2>4, <2>5, <2>6
    <2>8. QED
      BY <2>7
  <1>2. QED
    BY <1>1

(* So is every amount of a native payment's snapshot. *)
LEMMA NativeSnapshotTyped ==
  ASSUME NEW acct, Terms(acct), NEW pays, Counted(pays), NEW anchor, AnchorTyped(anchor),
         NEW d \in Nat, NEW amount \in Int
  PROVE  NativeSnapshot(acct, pays, d, amount, anchor) \in Money
  <1> DEFINE rows == project_ledger(acct, pays, d, anchor)
             from == Origin(acct.start, anchor) + (IF anchor.some THEN 1 ELSE 0)
             last == rows[Len(rows)]
  <1>1. /\ CoversCycles(rows, from, d)
        /\ ProjectedRows(rows, Len(rows), acct, pays, anchor, LedgerCycles(acct, d, anchor))
    BY ProjectionDates DEF Terms, AnchorTyped
  <1>2. Len(rows) \in Nat
    BY <1>1 DEF CoversCycles
  <1>3. NativeSnapshot(acct, pays, d, amount, anchor)
          = IF rows = <<>> THEN Snapshot(OpeningBalance(acct.borrow, anchor), 0, amount)
            ELSE IF last.cycle_date = d
                 THEN Snapshot(last.opening, last.interest, amount)
                 ELSE Snapshot(last.closing, 0, amount)
    BY DEF NativeSnapshot
  <1> HIDE DEF rows
  <1>4. \A i \in 1..Len(rows) : /\ rows[i].opening \in Int /\ rows[i].interest \in Int
                                /\ rows[i].closing \in Int
    BY <1>1, <1>2, RowsAreInt
  <1>5. rows # <<>> => Len(rows) \in 1..Len(rows)
    BY <1>1, <1>2 DEF ProjectedRows
  <1>6. OpeningBalance(acct.borrow, anchor) \in Int
    BY OpeningIsInt
  <1>7. ASSUME NEW before \in Int, NEW interest \in Int
        PROVE  Snapshot(before, interest, amount) \in Money
    BY DEF Snapshot, Money
  <1>8. rows # <<>> => last.opening \in Int /\ last.interest \in Int /\ last.closing \in Int
    BY <1>4, <1>5
  <1> HIDE DEF last
  <1>9. QED
    BY <1>3, <1>6, <1>7, <1>8

-----------------------------------------------------------------------------
(* A replay follows its order, step by step. *)

(* rows and anchors are what the first n steps of a replay give: a row for *)
(* each payment and the anchor after it.                                   *)
ReplayedRows(rows, anchors, n, acct, pays, stored, order) ==
  /\ anchors[0] = NoAnchor
  /\ \A i \in 1..n :
       IF pays[order[i]].method = "import"
       THEN /\ rows[i] = ReplayImport(acct, pays, stored, order[i],
                           IF i = 1 THEN acct.borrow ELSE rows[i - 1].after)
            /\ anchors[i] = AnchorAt(pays[order[i]].date, rows[i].after)
       ELSE /\ rows[i] = ReplayNative(acct, pays, order[i],
                           {order[j] : j \in 1..(i - 1)}, anchors[i - 1])
            /\ anchors[i] = anchors[i - 1]

(* pays, in that order, get these rows. *)
GivenRows(pays, order, rows) ==
  [p \in DOMAIN pays |-> rows[CHOOSE i \in DOMAIN order : order[i] = p]]

LEMMA ReplaySteps ==
  ASSUME NEW acct, NEW pays, NEW stored, NEW order, Len(order) \in Nat
  PROVE  \E rows, anchors :
           /\ ReplayedRows(rows, anchors, Len(order), acct, pays, stored, order)
           /\ Replay(acct, pays, stored, order) = GivenRows(pays, order, rows)
  <1> DEFINE n == Len(order)
             Running(rows) == IF rows = <<>> THEN acct.borrow ELSE rows[Len(rows)].after
             Import(prior, p) ==
               LET new == ReplayImport(acct, pays, stored, p, Running(prior.rows))
               IN  [rows   |-> Append(prior.rows, new),
                    anchor |-> AnchorAt(pays[p].date, new.after)]
             Native(prior, p, earlier) ==
               [rows   |-> Append(prior.rows,
                                  ReplayNative(acct, pays, p, earlier, prior.anchor)),
                anchor |-> prior.anchor]
             Step(f, i) ==
               IF i = 0 THEN [rows |-> <<>>, anchor |-> NoAnchor]
               ELSE IF pays[order[i]].method = "import"
                    THEN Import(f[i - 1], order[i])
                    ELSE Native(f[i - 1], order[i], {order[j] : j \in 1..(i - 1)})
             step == CHOOSE f : f = [i \in 0..n |-> Step(f, i)]
             Bad == {m \in Nat : ~ \E f : f = [i \in 0..m |-> Step(f, i)]}
             rows == step[n].rows
  <1>1. Replay(acct, pays, stored, order) = GivenRows(pays, order, rows)
    BY DEF Replay, GivenRows
  <1> HIDE DEF Import, Native
  <1>2. Bad = {}
    <2>1. SUFFICES ASSUME Bad # {} PROVE FALSE
      OBVIOUS
    <2>2. PICK m \in Bad : \A k \in Bad : m <= k
      BY <2>1, LeastExists
    <2>3. CASE m = 0
      <3> DEFINE g == [i \in 0..0 |-> [rows |-> <<>>, anchor |-> NoAnchor]]
      <3>1. g = [i \in 0..0 |-> Step(g, i)]
        OBVIOUS
      <3>2. QED
        BY <2>2, <2>3, <3>1
    <2>4. CASE m # 0
      <3>1. m \in Nat /\ m - 1 \in Nat /\ m - 1 \notin Bad
        <4>1. m \in Nat /\ m - 1 \in Nat /\ ~(m <= m - 1)
          BY <2>4
        <4> HIDE DEF Bad
        <4>2. QED
          BY <2>2, <4>1
      <3>2. PICK f : f = [i \in 0..(m - 1) |-> Step(f, i)]
        BY <3>1
      <3> DEFINE g == [i \in 0..m |-> Step(f, i)]
      <3>3. \A i \in 0..(m - 1) : g[i] = f[i]
        <4>1. \A i \in 0..(m - 1) : i \in 0..m
          BY <3>1
        <4> HIDE DEF Step
        <4>2. QED
          BY <3>2, <4>1
      <3>4. ASSUME NEW i \in 0..m
            PROVE  Step(f, i) = Step(g, i)
        <4>1. i # 0 => i - 1 \in 0..(m - 1)
          BY <3>1
        <4> HIDE DEF g
        <4>2. i # 0 => g[i - 1] = f[i - 1]
          BY <3>3, <4>1
        <4>3. QED
          BY <4>2
      <3>5. g = [i \in 0..m |-> Step(g, i)]
        BY <3>4
      <3>6. QED
        BY <2>2, <3>5
    <2>5. QED
      BY <2>3, <2>4
  <1>3. step = [i \in 0..n |-> Step(step, i)]
    BY <1>2
  <1> HIDE DEF step
  <1> DEFINE anchors == [i \in 0..n |-> step[i].anchor]
             Good(m) == LET r == step[m].rows
                        IN  /\ DOMAIN r = 1..m /\ Len(r) = m /\ (m = 0 => r = <<>>)
                            /\ ReplayedRows(r, anchors, m, acct, pays, stored, order)
             Wrong == {m \in 0..n : ~Good(m)}
  <1>4. Wrong = {}
    <2>1. SUFFICES ASSUME Wrong # {} PROVE FALSE
      OBVIOUS
    <2>2. PICK m \in Wrong : \A k \in Wrong : m <= k
      <3>1. Wrong \in SUBSET Nat
        OBVIOUS
      <3> HIDE DEF Wrong
      <3>2. QED
        BY <2>1, <3>1, LeastExists
    <2>3. step[m] = Step(step, m) /\ m \in 0..n /\ ~Good(m)
      BY <1>3
    <2>4. step[0] = Step(step, 0) /\ 0 \in 0..n
      BY <1>3
    <2>5. anchors[0] = NoAnchor
      BY <2>4
    <2>6. CASE m = 0
      <3> HIDE DEF anchors
      <3>1. QED
        BY <2>3, <2>5, <2>6 DEF ReplayedRows
    <2>7. CASE m # 0
      <3>1. m - 1 \in 0..n /\ ~(m <= m - 1) /\ m \in 1..n
        BY <2>3, <2>7
      <3>2. Good(m - 1)
        BY <2>2, <3>1
      <3> DEFINE p == order[m]
                 prior == step[m - 1].rows
                 r == step[m].rows
                 old == IF m = 1 THEN acct.borrow ELSE prior[m - 1].after
                 new == IF pays[p].method = "import"
                        THEN ReplayImport(acct, pays, stored, p, old)
                        ELSE ReplayNative(acct, pays, p, {order[j] : j \in 1..(m - 1)},
                                          anchors[m - 1])
      <3>3. anchors[m] = step[m].anchor /\ anchors[m - 1] = step[m - 1].anchor
        BY <2>3, <3>1
      <3> HIDE DEF anchors
      <3>4. /\ DOMAIN prior = 1..(m - 1) /\ Len(prior) = m - 1
            /\ (m - 1 = 0 => prior = <<>>)
            /\ ReplayedRows(prior, anchors, m - 1, acct, pays, stored, order)
        BY <3>2
      <3>5. Running(prior) = old
        BY <3>1, <3>4
      <3>6. /\ r = Append(prior, new)
            /\ anchors[m] = IF pays[p].method = "import"
                            THEN AnchorAt(pays[p].date, new.after)
                            ELSE anchors[m - 1]
        <4>1. CASE pays[p].method = "import"
          <5>1. step[m] = Import(step[m - 1], p)
            BY <2>3, <2>7, <4>1
          <5>2. step[m] = [rows |-> Append(prior, new),
                           anchor |-> AnchorAt(pays[p].date, new.after)]
            BY <3>5, <4>1, <5>1 DEF Import
          <5> HIDE DEF new, prior
          <5>3. QED
            BY <3>3, <4>1, <5>2
        <4>2. CASE pays[p].method # "import"
          <5>1. step[m] = Native(step[m - 1], p, {order[j] : j \in 1..(m - 1)})
            BY <2>3, <2>7, <4>2
          <5>2. step[m] = [rows |-> Append(prior, new), anchor |-> anchors[m - 1]]
            BY <3>3, <4>2, <5>1 DEF Native
          <5> HIDE DEF new, prior
          <5>3. QED
            BY <3>3, <4>2, <5>2
        <4>3. QED
          BY <4>1, <4>2
      <3> HIDE DEF prior, r, new, old
      <3>7. /\ DOMAIN r = 1..m /\ Len(r) = m
            /\ \A i \in 1..(m - 1) : r[i] = prior[i]
            /\ r[m] = new
        BY <2>3, <3>1, <3>4, <3>6
      <3>8. new = IF pays[p].method = "import"
                  THEN ReplayImport(acct, pays, stored, p,
                                    IF m = 1 THEN acct.borrow ELSE r[m - 1].after)
                  ELSE ReplayNative(acct, pays, p, {order[j] : j \in 1..(m - 1)},
                                    anchors[m - 1])
        <4>1. m # 1 => r[m - 1] = prior[m - 1]
          BY <3>1, <3>7
        <4>2. QED
          BY <4>1 DEF new, old
      <3>9. ReplayedRows(r, anchors, m, acct, pays, stored, order)
        <4>1. SUFFICES ASSUME NEW i \in 1..m
              PROVE
                IF pays[order[i]].method = "import"
                THEN /\ r[i] = ReplayImport(acct, pays, stored, order[i],
                                 IF i = 1 THEN acct.borrow ELSE r[i - 1].after)
                     /\ anchors[i] = AnchorAt(pays[order[i]].date, r[i].after)
                ELSE /\ r[i] = ReplayNative(acct, pays, order[i],
                                 {order[j] : j \in 1..(i - 1)}, anchors[i - 1])
                     /\ anchors[i] = anchors[i - 1]
          BY <2>5 DEF ReplayedRows
        <4>2. CASE i = m
          BY <3>6, <3>7, <3>8, <4>2
        <4>3. CASE i # m
          <5>1. i \in 1..(m - 1) /\ (i # 1 => i - 1 \in 1..(m - 1))
            BY <3>1, <4>3
          <5>2. r[i] = prior[i] /\ (i # 1 => r[i - 1] = prior[i - 1])
            BY <3>7, <5>1
          <5>3. QED
            BY <3>4, <5>1, <5>2 DEF ReplayedRows
        <4>4. QED
          BY <4>2, <4>3
      <3>10. Good(m)
        BY <3>7, <3>9, <2>7 DEF r
      <3>11. QED
        BY <2>3, <3>10
    <2>8. QED
      BY <2>6, <2>7
  <1> HIDE DEF anchors
  <1>5. Good(n)
    BY <1>4
  <1>6. QED
    BY <1>1, <1>5

(* What an order of a history's rows is. *)
Ordered(pays, order) ==
  /\ Len(order) \in Nat /\ DOMAIN order = 1..Len(order)
  /\ \A i \in 1..Len(order) : order[i] \in DOMAIN pays
  /\ \A p \in DOMAIN pays : \E i \in 1..Len(order) : order[i] = p
  /\ \A i, j \in 1..Len(order) : order[i] = order[j] => i = j
  /\ \A i, j \in 1..Len(order) : i < j => pays[order[i]].date <= pays[order[j]].date

LEMMA OrderFacts ==
  ASSUME NEW pays, IsFiniteSet(DOMAIN pays), NEW order \in Chronological(pays)
  PROVE  Ordered(pays, order)
  <1> DEFINE n == Cardinality(DOMAIN pays)
             D == DOMAIN pays
  <1>1. n \in Nat
    BY FS_CardinalityType
  <1>2. /\ order \in [1..n -> D]
        /\ \A p \in D : \E i \in 1..n : order[i] = p
        /\ \A i, j \in 1..n : order[i] = order[j] => i = j
        /\ \A i, j \in 1..n : i < j => pays[order[i]].date <= pays[order[j]].date
    BY DEF Chronological, Bijection, Injection, IsInjective, Surjection
  <1> HIDE DEF n, D
  <1>3. order \in Seq(D) /\ Len(order) = n /\ DOMAIN order = 1..n
    BY <1>1, <1>2
  <1>4. QED
    BY <1>1, <1>2, <1>3 DEF Ordered, D

(* after holds what the first n steps of a replay store. *)
Replayed(after, anchors, n, acct, pays, stored, order) ==
  /\ anchors[0] = NoAnchor
  /\ \A i \in 1..n :
       IF pays[order[i]].method = "import"
       THEN /\ after[order[i]] = ReplayImport(acct, pays, stored, order[i],
                 IF i = 1 THEN acct.borrow ELSE after[order[i - 1]].after)
            /\ anchors[i] = AnchorAt(pays[order[i]].date, after[order[i]].after)
       ELSE /\ after[order[i]] = ReplayNative(acct, pays, order[i],
                 {order[j] : j \in 1..(i - 1)}, anchors[i - 1])
            /\ anchors[i] = anchors[i - 1]

(* Replay stores, for each payment in turn, what follows from the rows     *)
(* before it.                                                              *)
LEMMA ReplayFollowsOrder ==
  ASSUME NEW acct, NEW pays, NEW stored, NEW order, Ordered(pays, order)
  PROVE  \E anchors : Replayed(Replay(acct, pays, stored, order), anchors, Len(order),
                               acct, pays, stored, order)
  <1> DEFINE R == Replay(acct, pays, stored, order)
             n == Len(order)
             place(p) == CHOOSE i \in DOMAIN order : order[i] = p
  <1>1. n \in Nat /\ DOMAIN order = 1..n
    BY DEF Ordered
  <1>2. PICK rows, anchors :
          /\ ReplayedRows(rows, anchors, n, acct, pays, stored, order)
          /\ Replay(acct, pays, stored, order) = GivenRows(pays, order, rows)
    BY <1>1, ReplaySteps
  <1>3. ASSUME NEW i \in 1..n
        PROVE  R[order[i]] = rows[i]
    <2>1. order[i] \in DOMAIN pays /\ place(order[i]) = i
      BY <1>1 DEF Ordered
    <2>2. R = [p \in DOMAIN pays |-> rows[place(p)]]
      BY <1>2 DEF GivenRows
    <2> HIDE DEF place, R
    <2>3. QED
      BY <2>1, <2>2
  <1> HIDE DEF R
  <1>4. ASSUME NEW i \in 1..n, i # 1
        PROVE  R[order[i - 1]] = rows[i - 1]
    <2>1. i - 1 \in 1..n
      BY <1>1, <1>4
    <2>2. QED
      BY <1>3, <2>1
  <1>5. Replayed(R, anchors, n, acct, pays, stored, order)
    BY <1>2, <1>3, <1>4 DEF ReplayedRows, Replayed
  <1>6. QED
    BY <1>5 DEF R

(* The interest recorded with an import survives a replay. *)
LEMMA ReplayKeepsInterest ==
  ASSUME NEW acct, NEW pays, NEW stored, NEW order, Ordered(pays, order),
         NEW p \in DOMAIN pays, pays[p].method = "import"
  PROVE  Replay(acct, pays, stored, order)[p].interest = stored[p].interest
  <1> DEFINE R == Replay(acct, pays, stored, order)
  <1>1. PICK anchors : Replayed(R, anchors, Len(order), acct, pays, stored, order)
    BY ReplayFollowsOrder
  <1>2. PICK i \in 1..Len(order) : order[i] = p
    BY DEF Ordered
  <1> HIDE DEF R
  <1>3. R[p] = ReplayImport(acct, pays, stored, p,
                 IF i = 1 THEN acct.borrow ELSE R[order[i - 1]].after)
    BY <1>1, <1>2 DEF Replayed
  <1>4. QED
    BY <1>3 DEF ReplayImport, Snapshot, R

(* The interest recorded with an imported payment never changes, whatever  *)
(* is added, deleted, replayed or edited later.                            *)
THEOREM ImportedInterestAlwaysKept == Spec => ImportedInterestKept
  <1> DEFINE Kept == \A p \in Recorded \intersect Recorded' :
                       Imported(p) => snap'[p].interest = snap[p].interest
  <1>1. IInv /\ [Next]_vars => [Kept]_vars
    <2>1. SUFFICES ASSUME IInv, [Next]_vars, NEW p \in Recorded, p \in Recorded', Imported(p)
                   PROVE  snap'[p].interest = snap[p].interest
      OBVIOUS
    <2>2. p \in DOMAIN snap
      BY <2>1 DEF IInv, HistoryTyped
    <2>3. CASE \/ Tick \/ CreateAccount \/ UpdateAccount \/ CloseAccount
               \/ UNCHANGED vars
      BY <2>3 DEF Tick, CreateAccount, UpdateAccount, CloseAccount, vars
    <2>4. CASE \E force \in BOOLEAN : PurgeAccount(force)
      BY <2>1, <2>4 DEF PurgeAccount, Recorded
    <2>5. CASE AddSome \/ ImportSome
      <3>1. ASSUME NEW added, snap' = Insert(snap, added)
            PROVE  snap'[p] = snap[p]
        BY <2>2, <3>1, InsertRows
      <3>2. CASE AddSome
        BY <3>1, <3>2 DEF AddSome, AddPayment
      <3>3. ASSUME NEW acct, NEW file, NEW new, NEW balance,
                   InsertImported(acct, file, new, balance)
            PROVE  snap'[p] = snap[p]
        BY <3>1, <3>3 DEF InsertImported
      <3>4. CASE ImportSome
        BY <3>3, <3>4 DEF ImportSome, ImportExisting, ImportCreate
      <3>5. QED
        BY <2>5, <3>2, <3>4
    <2>6. CASE DeleteSome
      <3>1. PICK q \in Recorded :
              \E order \in Chronological(Restrict(payments, Without(q))) :
                DeletePayment(q, order)
        BY <2>6 DEF DeleteSome
      <3> DEFINE kept == Restrict(payments, Without(q))
      <3>2. PICK order \in Chronological(kept) : DeletePayment(q, order)
        BY <3>1
      <3>3. payments' = kept /\ snap' = Replay(account, kept, snap, order)
        BY <3>2 DEF DeletePayment
      <3>4. DOMAIN kept = Without(q) /\ \A r \in Without(q) : kept[r] = payments[r]
        BY DEF Restrict
      <3>5. IsFiniteSet(DOMAIN kept)
        BY <2>1, <3>4, LedgerAssumption, FS_Subset DEF IInv, HistoryTyped, Without
      <3>6. p \in DOMAIN kept
        BY <2>1, <3>3 DEF Recorded
      <3>7. kept[p].method = "import"
        BY <2>1, <3>4, <3>6 DEF Imported
      <3> HIDE DEF kept
      <3>8. Ordered(kept, order)
        BY <3>5, OrderFacts
      <3>9. QED
        BY <3>3, <3>6, <3>7, <3>8, ReplayKeepsInterest
    <2>7. QED
      BY <2>1, <2>3, <2>4, <2>5, <2>6 DEF Next
  <1>2. QED
    BY <1>1, InvariantAlways, PTL DEF Spec, ImportedInterestKept

-----------------------------------------------------------------------------
(* What a projection depends on. *)

SameTerms(acct1, acct2) ==
  acct1.borrow = acct2.borrow /\ acct1.rate = acct2.rate /\ acct1.start = acct2.start

PeriodTotal(acct, pays, anchor, cycles, i) ==
  AmountOf(pays, PeriodPayments(acct, pays, anchor, cycles, i))

AnchorDated(anchor) == anchor.some \in BOOLEAN /\ (anchor.some => anchor.date \in Nat)

(* The payments of the first m periods add up to the same. *)
SameTotals(acct1, pays1, acct2, pays2, anchor, cycles, m) ==
  \A i \in 1..m : PeriodTotal(acct1, pays1, anchor, cycles, i)
                    = PeriodTotal(acct2, pays2, anchor, cycles, i)

(* The first m of n rows are the same, and so is what the next row has     *)
(* before its payments.                                                    *)
RowsSame(rows1, rows2, n, m) ==
  /\ \A i \in 1..m : rows1[i] = rows2[i]
  /\ m < n => /\ rows1[m + 1].opening = rows2[m + 1].opening
              /\ rows1[m + 1].interest = rows2[m + 1].interest
              /\ rows1[m + 1].cycle_date = rows2[m + 1].cycle_date

(* Two projections agree as far as the periods' payments add up to the     *)
(* same.                                                                   *)
LEMMA RowsAgree ==
  ASSUME NEW acct1, NEW acct2, SameTerms(acct1, acct2), NEW pays1, NEW pays2,
         NEW anchor, NEW cycles, NEW n \in Nat, NEW rows1, NEW rows2,
         ProjectedRows(rows1, n, acct1, pays1, anchor, cycles),
         ProjectedRows(rows2, n, acct2, pays2, anchor, cycles),
         NEW m \in 0..n, SameTotals(acct1, pays1, acct2, pays2, anchor, cycles, m)
  PROVE  RowsSame(rows1, rows2, n, m)
  <1> DEFINE Bad == {i \in 1..m : rows1[i] # rows2[i]}
  <1>1. ASSUME NEW i \in 1..n, i # 1 => rows1[i - 1] = rows2[i - 1]
        PROVE  /\ rows1[i].opening = rows2[i].opening
               /\ rows1[i].interest = rows2[i].interest
               /\ rows1[i].cycle_date = rows2[i].cycle_date
               /\ PeriodTotal(acct1, pays1, anchor, cycles, i)
                    = PeriodTotal(acct2, pays2, anchor, cycles, i)
                  => rows1[i] = rows2[i]
    <2>1. OpeningOf(acct1, anchor, rows1, i) = OpeningOf(acct2, anchor, rows2, i)
      BY <1>1 DEF OpeningOf, SameTerms
    <2>2. /\ rows1[i] = LedgerRow(acct1, pays1, anchor, cycles, i,
                                  OpeningOf(acct1, anchor, rows1, i))
          /\ rows2[i] = LedgerRow(acct2, pays2, anchor, cycles, i,
                                  OpeningOf(acct2, anchor, rows2, i))
      BY DEF ProjectedRows
    <2>3. acct1.rate = acct2.rate
      BY DEF SameTerms
    <2>4. QED
      BY <2>1, <2>2, <2>3 DEF LedgerRow, PeriodTotal
  <1>2. Bad = {}
    <2>1. SUFFICES ASSUME Bad # {} PROVE FALSE
      OBVIOUS
    <2>2. PICK i \in Bad : \A k \in Bad : i <= k
      <3>1. Bad \in SUBSET Nat
        OBVIOUS
      <3> HIDE DEF Bad
      <3>2. QED
        BY <2>1, <3>1, LeastExists
    <2>3. i \in 1..m /\ i \in 1..n
      OBVIOUS
    <2>4. i # 1 => i - 1 \in 1..m /\ ~(i <= i - 1)
      BY <2>3
    <2>5. i # 1 => rows1[i - 1] = rows2[i - 1]
      BY <2>2, <2>4
    <2>6. PeriodTotal(acct1, pays1, anchor, cycles, i)
            = PeriodTotal(acct2, pays2, anchor, cycles, i)
      BY <2>3 DEF SameTotals
    <2>7. QED
      BY <1>1, <2>3, <2>5, <2>6
  <1>3. \A i \in 1..m : rows1[i] = rows2[i]
    BY <1>2
  <1>4. ASSUME m < n
        PROVE  /\ rows1[m + 1].opening = rows2[m + 1].opening
               /\ rows1[m + 1].interest = rows2[m + 1].interest
               /\ rows1[m + 1].cycle_date = rows2[m + 1].cycle_date
    <2>1. m + 1 \in 1..n /\ (m + 1) - 1 = m /\ (m + 1 # 1 => m \in 1..m)
      BY <1>4
    <2>2. m + 1 # 1 => rows1[(m + 1) - 1] = rows2[(m + 1) - 1]
      BY <1>3, <2>1
    <2>3. QED
      BY <1>1, <2>1, <2>2
  <1>5. QED
    BY <1>3, <1>4 DEF RowsSame

(* The snapshot of a native payment depends on the payments of the periods *)
(* that have closed before its date, and on nothing else of the history.   *)
LEMMA NativeSnapshotAgrees ==
  ASSUME NEW acct1, NEW acct2, SameTerms(acct1, acct2), acct1.start \in Nat,
         NEW pays1, NEW pays2, NEW anchor, AnchorDated(anchor),
         NEW d \in Nat, NEW amount,
         \A i \in 1..Len(LedgerCycles(acct1, d, anchor)) :
           LedgerCycles(acct1, d, anchor)[i] < d =>
             PeriodTotal(acct1, pays1, anchor, LedgerCycles(acct1, d, anchor), i)
               = PeriodTotal(acct2, pays2, anchor, LedgerCycles(acct1, d, anchor), i)
  PROVE  NativeSnapshot(acct1, pays1, d, amount, anchor)
           = NativeSnapshot(acct2, pays2, d, amount, anchor)
  <1> DEFINE cycles == LedgerCycles(acct1, d, anchor)
             from == Origin(acct1.start, anchor) + (IF anchor.some THEN 1 ELSE 0)
             rows1 == project_ledger(acct1, pays1, d, anchor)
             rows2 == project_ledger(acct2, pays2, d, anchor)
             n == Len(cycles)
             Of(acct, rows) ==
               IF rows = <<>> THEN Snapshot(OpeningBalance(acct.borrow, anchor), 0, amount)
               ELSE IF rows[Len(rows)].cycle_date = d
                    THEN Snapshot(rows[Len(rows)].opening, rows[Len(rows)].interest, amount)
                    ELSE Snapshot(rows[Len(rows)].closing, 0, amount)
  <1>1. /\ NativeSnapshot(acct1, pays1, d, amount, anchor) = Of(acct1, rows1)
        /\ NativeSnapshot(acct2, pays2, d, amount, anchor) = Of(acct2, rows2)
    BY DEF NativeSnapshot
  <1>2. LedgerCycles(acct2, d, anchor) = cycles /\ acct2.start \in Nat
        /\ from = Origin(acct2.start, anchor) + (IF anchor.some THEN 1 ELSE 0)
    BY DEF LedgerCycles, SameTerms
  <1>3. /\ CoversCycles(rows1, from, d) /\ n = Len(rows1)
        /\ ProjectedRows(rows1, Len(rows1), acct1, pays1, anchor, cycles)
    BY ProjectionDates DEF AnchorDated
  <1>4. /\ CoversCycles(rows2, from, d) /\ n = Len(rows2)
        /\ ProjectedRows(rows2, Len(rows2), acct2, pays2, anchor, cycles)
    <2> HIDE DEF from, cycles
    <2>1. /\ CoversCycles(rows2, from, d)
          /\ Len(LedgerCycles(acct2, d, anchor)) = Len(rows2)
          /\ ProjectedRows(rows2, Len(rows2), acct2, pays2, anchor,
                           LedgerCycles(acct2, d, anchor))
      BY <1>2, ProjectionDates DEF AnchorDated
    <2>2. QED
      BY <1>2, <2>1
  <1>5. \A i \in 1..n : cycles[i] < d => PeriodTotal(acct1, pays1, anchor, cycles, i)
                                       = PeriodTotal(acct2, pays2, anchor, cycles, i)
    OBVIOUS
  <1> HIDE DEF cycles, from, rows1, rows2
  <1>6. n \in Nat /\ CycleDays \subseteq Nat
    BY <1>3, CyclesAssumption DEF CoversCycles
  <1>7. ASSUME NEW i \in 1..n
        PROVE  /\ cycles[i] = rows1[i].cycle_date
               /\ cycles[i] \in Nat /\ cycles[i] <= d
    <2>1. rows1[i] = LedgerRow(acct1, pays1, anchor, cycles, i,
                               OpeningOf(acct1, anchor, rows1, i))
      BY <1>3 DEF ProjectedRows
    <2>2. cycles[i] = rows1[i].cycle_date
      BY <2>1 DEF LedgerRow
    <2>3. QED
      BY <1>3, <1>6, <2>2 DEF CoversCycles
  <1>8. \A i \in 1..n : i < n => cycles[i] < d
    <2>1. SUFFICES ASSUME NEW i \in 1..n, i < n PROVE cycles[i] < d
      OBVIOUS
    <2>2. n \in 1..n /\ rows1[i].cycle_date < rows1[n].cycle_date
      BY <1>3, <1>6, <2>1 DEF CoversCycles
    <2>3. QED
      BY <1>7, <2>2
  <1>9. CASE n = 0
    BY <1>1, <1>3, <1>4, <1>9 DEF ProjectedRows, SameTerms
  <1>10. CASE n # 0
    <2>1. n \in 1..n /\ n - 1 \in 0..n /\ n - 1 < n /\ (n - 1) + 1 = n
      BY <1>6, <1>10
    <2>2. rows1 # <<>> /\ rows2 # <<>> /\ Len(rows1) = n /\ Len(rows2) = n
      BY <1>3, <1>4, <1>6, <1>10 DEF ProjectedRows
    <2>3. SameTotals(acct1, pays1, acct2, pays2, anchor, cycles, n - 1)
      BY <1>5, <1>6, <1>8 DEF SameTotals
    <2>4. /\ rows1[n].opening = rows2[n].opening
          /\ rows1[n].interest = rows2[n].interest
          /\ rows1[n].cycle_date = rows2[n].cycle_date
      <3>1. RowsSame(rows1, rows2, n, n - 1)
        BY <1>3, <1>4, <1>6, <2>1, <2>2, <2>3, RowsAgree
      <3>2. QED
        BY <2>1, <3>1 DEF RowsSame
    <2>5. CASE cycles[n] = d
      BY <1>1, <1>7, <2>1, <2>2, <2>4, <2>5
    <2>6. CASE cycles[n] # d
      <3>1. cycles[n] < d
        BY <1>7, <2>1, <2>6
      <3>2. SameTotals(acct1, pays1, acct2, pays2, anchor, cycles, n)
        BY <1>5, <1>6, <1>8, <3>1 DEF SameTotals
      <3>3. n \in 0..n
        BY <1>6
      <3>4. RowsSame(rows1, rows2, n, n)
        BY <1>3, <1>4, <1>6, <2>2, <3>2, <3>3, RowsAgree
      <3>5. rows1[n] = rows2[n]
        BY <2>1, <3>4 DEF RowsSame
      <3>6. QED
        BY <1>1, <2>2, <3>5
    <2>7. QED
      BY <2>5, <2>6
  <1>11. QED
    BY <1>9, <1>10

-----------------------------------------------------------------------------
(* A replay of a replay stores the same. *)

(* An account's status does not enter into a snapshot. *)
LEMMA NativeSnapshotTerms ==
  ASSUME NEW acct1, NEW acct2, SameTerms(acct1, acct2), acct1.start \in Nat,
         NEW pays, NEW anchor, AnchorDated(anchor), NEW d \in Nat, NEW amount
  PROVE  NativeSnapshot(acct1, pays, d, amount, anchor)
           = NativeSnapshot(acct2, pays, d, amount, anchor)
  <1>1. ASSUME NEW cycles, NEW i
        PROVE  PeriodTotal(acct1, pays, anchor, cycles, i)
                 = PeriodTotal(acct2, pays, anchor, cycles, i)
    BY DEF PeriodTotal, PeriodPayments, SameTerms
  <1>2. QED
    BY <1>1, NativeSnapshotAgrees

(* Two replays see the same payments in their first n steps. *)
SameSteps(pays1, stored1, order1, pays2, stored2, order2, n) ==
  \A i \in 1..n :
    /\ order1[i] = order2[i]
    /\ order1[i] \in DOMAIN pays1 /\ order1[i] \in DOMAIN pays2
    /\ pays1[order1[i]] = pays2[order1[i]]
    /\ pays1[order1[i]].date \in Days
    /\ pays1[order1[i]].method = "import" =>
         stored1[order1[i]].interest = stored2[order1[i]].interest

(* They store the same, and hold the same anchor after each step. *)
SameResults(after1, anchors1, after2, anchors2, order, n) ==
  /\ \A i \in 1..n : after1[order[i]] = after2[order[i]]
  /\ \A i \in 0..n : anchors1[i] = anchors2[i] /\ AnchorDated(anchors1[i])

LEMMA ReplaysAgree ==
  ASSUME NEW acct1, NEW acct2, SameTerms(acct1, acct2), acct1.start \in Nat,
         NEW pays1, NEW stored1, NEW order1, NEW pays2, NEW stored2, NEW order2,
         NEW n \in Nat, SameSteps(pays1, stored1, order1, pays2, stored2, order2, n),
         NEW after1, NEW anchors1, NEW after2, NEW anchors2,
         Replayed(after1, anchors1, n, acct1, pays1, stored1, order1),
         Replayed(after2, anchors2, n, acct2, pays2, stored2, order2)
  PROVE  SameResults(after1, anchors1, after2, anchors2, order1, n)
  <1> DEFINE Good(i) == /\ i # 0 => after1[order1[i]] = after2[order1[i]]
                        /\ anchors1[i] = anchors2[i] /\ AnchorDated(anchors1[i])
             Bad == {i \in 0..n : ~Good(i)}
  <1>1. Bad = {}
    <2>1. SUFFICES ASSUME Bad # {} PROVE FALSE
      OBVIOUS
    <2>2. PICK i \in Bad : \A k \in Bad : i <= k
      <3>1. Bad \in SUBSET Nat
        OBVIOUS
      <3> HIDE DEF Bad
      <3>2. QED
        BY <2>1, <3>1, LeastExists
    <2>3. i \in 0..n /\ ~Good(i)
      OBVIOUS
    <2> HIDE DEF Bad
    <2>4. CASE i = 0
      <3>1. anchors1[0] = NoAnchor /\ anchors2[0] = NoAnchor
        BY DEF Replayed
      <3>2. AnchorDated(anchors1[0])
        BY <3>1 DEF AnchorDated, NoAnchor
      <3>3. QED
        BY <2>3, <2>4, <3>1, <3>2
    <2>5. CASE i # 0
      <3>1. i \in 1..n /\ i - 1 \in 0..n /\ ~(i <= i - 1) /\ (i # 1 => i - 1 \in 1..n)
        BY <2>3, <2>5
      <3>2. Good(i - 1)
        BY <2>2, <3>1 DEF Bad
      <3> DEFINE p == order1[i]
                 earlier == {order1[j] : j \in 1..(i - 1)}
                 anchor == anchors1[i - 1]
      <3>3. /\ order2[i] = p /\ p \in DOMAIN pays1 /\ p \in DOMAIN pays2
            /\ pays1[p] = pays2[p] /\ pays1[p].date \in Days
            /\ pays1[p].method = "import" => stored1[p].interest = stored2[p].interest
        BY <3>1 DEF SameSteps
      <3>4. \A j \in 1..(i - 1) : /\ order1[j] = order2[j]
                                  /\ pays1[order1[j]] = pays2[order1[j]]
        BY <2>3, <3>1 DEF SameSteps
      <3>5. earlier = {order2[j] : j \in 1..(i - 1)}
        BY <3>4
      <3>6. Restrict(pays1, earlier) = Restrict(pays2, earlier)
        BY <3>4 DEF Restrict
      <3>7. pays1[p].date \in Nat /\ AnchorDate(pays1[p].date) \in Nat
        BY <3>3, AnchorBounds, LedgerAssumption DEF Days
      <3>8. anchors2[i - 1] = anchor /\ AnchorDated(anchor)
        BY <3>2
      <3>9. i # 1 => after1[order1[i - 1]] = after2[order2[i - 1]]
        BY <3>1, <3>2, <3>4
      <3> HIDE DEF earlier, anchor, p
      <3>10. CASE pays1[p].method = "import"
        <4> DEFINE old1 == IF i = 1 THEN acct1.borrow ELSE after1[order1[i - 1]].after
                   old2 == IF i = 1 THEN acct2.borrow ELSE after2[order2[i - 1]].after
        <4>1. old1 = old2
          BY <3>9 DEF SameTerms
        <4>2. /\ after1[p] = ReplayImport(acct1, pays1, stored1, p, old1)
              /\ anchors1[i] = AnchorAt(pays1[p].date, after1[p].after)
          BY <3>1, <3>10 DEF Replayed, p
        <4>3. /\ after2[p] = ReplayImport(acct2, pays2, stored2, p, old2)
              /\ anchors2[i] = AnchorAt(pays2[p].date, after2[p].after)
          BY <3>1, <3>3, <3>10 DEF Replayed
        <4> HIDE DEF old1, old2
        <4>4. after1[p] = after2[p]
          BY <3>3, <3>10, <4>1, <4>2, <4>3 DEF ReplayImport
        <4>5. anchors1[i] = anchors2[i]
          BY <3>3, <4>2, <4>3, <4>4
        <4>6. AnchorDated(anchors1[i])
          BY <3>7, <4>2 DEF AnchorAt, AnchorDated
        <4>7. QED
          BY <2>3, <4>4, <4>5, <4>6 DEF p
      <3>11. CASE pays1[p].method # "import"
        <4>1. /\ after1[p] = ReplayNative(acct1, pays1, p, earlier, anchor)
              /\ anchors1[i] = anchor
          BY <3>1, <3>11 DEF Replayed, p, earlier, anchor
        <4>2. /\ after2[p] = ReplayNative(acct2, pays2, p, earlier, anchor)
              /\ anchors2[i] = anchor
          <5>1. /\ after2[p] = ReplayNative(acct2, pays2, p,
                                 {order2[j] : j \in 1..(i - 1)}, anchors2[i - 1])
                /\ anchors2[i] = anchors2[i - 1]
            BY <3>1, <3>3, <3>11 DEF Replayed
          <5>2. QED
            BY <3>5, <3>8, <5>1
        <4> DEFINE P == Restrict(pays1, earlier)
        <4>3. after1[p] = NativeSnapshot(acct1, P, pays1[p].date, pays1[p].amount, anchor)
          BY <4>1 DEF ReplayNative
        <4>4. after2[p] = NativeSnapshot(acct2, P, pays1[p].date, pays1[p].amount, anchor)
          BY <3>3, <3>6, <4>2 DEF ReplayNative
        <4> HIDE DEF P
        <4>5. after1[p] = after2[p]
          BY <3>7, <3>8, <4>3, <4>4, NativeSnapshotTerms
        <4>6. QED
          BY <2>3, <3>8, <4>1, <4>2, <4>5 DEF p
      <3>12. QED
        BY <3>10, <3>11
    <2>6. QED
      BY <2>4, <2>5
  <1>2. \A i \in 0..n : Good(i)
    BY <1>1 DEF Bad
  <1>3. QED
    BY <1>2 DEF SameResults

LEMMA ReplayIsFunction ==
  ASSUME NEW acct, NEW pays, NEW stored, NEW order, Len(order) \in Nat
  PROVE  Replay(acct, pays, stored, order)
           = [p \in DOMAIN pays |-> Replay(acct, pays, stored, order)[p]]
  <1>1. PICK rows : Replay(acct, pays, stored, order) = GivenRows(pays, order, rows)
    BY ReplaySteps
  <1>2. QED
    BY <1>1 DEF GivenRows

(* Replaying what a replay stored changes nothing. *)
LEMMA ReplayIdempotent ==
  ASSUME NEW acct1, NEW acct2, SameTerms(acct1, acct2), acct1.start \in Nat,
         NEW pays, \A p \in DOMAIN pays : pays[p].date \in Days,
         NEW stored, NEW order, Ordered(pays, order)
  PROVE  LET new == Replay(acct1, pays, stored, order)
         IN  new = Replay(acct2, pays, new, order)
  <1> DEFINE new == Replay(acct1, pays, stored, order)
             again == Replay(acct2, pays, new, order)
             n == Len(order)
  <1>1. PICK anchors1 : Replayed(new, anchors1, n, acct1, pays, stored, order)
    BY ReplayFollowsOrder
  <1>2. PICK anchors2 : Replayed(again, anchors2, n, acct2, pays, new, order)
    BY ReplayFollowsOrder
  <1>3. \A p \in DOMAIN pays : pays[p].method = "import" =>
          new[p].interest = stored[p].interest
    BY ReplayKeepsInterest
  <1>4. /\ new = [p \in DOMAIN pays |-> new[p]]
        /\ again = [p \in DOMAIN pays |-> again[p]]
    BY ReplayIsFunction DEF Ordered
  <1> HIDE DEF again, new
  <1>5. SameSteps(pays, stored, order, pays, new, order, n) /\ n \in Nat
    BY <1>3 DEF SameSteps, Ordered
  <1>6. SameResults(new, anchors1, again, anchors2, order, n)
    BY <1>1, <1>2, <1>5, ReplaysAgree
  <1>7. \A p \in DOMAIN pays : new[p] = again[p]
    BY <1>6 DEF SameResults, Ordered
  <1>8. new = again
    BY <1>4, <1>7
  <1>9. QED
    BY <1>8 DEF new, again

(* Deleting a payment leaves the snapshots of the others exactly as a      *)
(* second recalculation would store them, imported rows included.          *)
THEOREM DeletionAlwaysLeavesConsistent == Spec => DeletionLeavesConsistent
  <1> DEFINE Leaves == Removed # {} /\ Recorded' # {} => ConsistentAfter
  <1>1. IInv /\ [Next]_vars => [Leaves]_vars
    <2>1. SUFFICES ASSUME IInv, [Next]_vars, Removed # {}, Recorded' # {}
                   PROVE  ConsistentAfter
      OBVIOUS
    <2>2. CASE \/ Tick \/ CreateAccount \/ UpdateAccount \/ CloseAccount
               \/ UNCHANGED vars
      BY <2>1, <2>2 DEF Tick, CreateAccount, UpdateAccount, CloseAccount, vars,
                        Removed, Recorded
    <2>3. CASE \E force \in BOOLEAN : PurgeAccount(force)
      BY <2>1, <2>3 DEF PurgeAccount, Recorded
    <2>4. CASE AddSome \/ ImportSome
      <3>1. ASSUME NEW added, payments' = Insert(payments, added)
            PROVE  Recorded \subseteq Recorded'
        BY <3>1, InsertRows DEF Recorded
      <3>2. AddSome => Recorded \subseteq Recorded'
        BY <3>1 DEF AddSome, AddPayment
      <3>3. ASSUME NEW acct, NEW file, NEW new, NEW balance,
                   InsertImported(acct, file, new, balance)
            PROVE  Recorded \subseteq Recorded'
        BY <3>1, <3>3 DEF InsertImported
      <3>4. ImportSome => Recorded \subseteq Recorded'
        BY <3>3 DEF ImportSome, ImportExisting, ImportCreate
      <3>5. QED
        BY <2>1, <2>4, <3>2, <3>4 DEF Removed
    <2>5. CASE DeleteSome
      <3>1. PICK q \in Recorded :
              \E order \in Chronological(Restrict(payments, Without(q))) :
                DeletePayment(q, order)
        BY <2>5 DEF DeleteSome
      <3> DEFINE kept == Restrict(payments, Without(q))
      <3>2. PICK order \in Chronological(kept) : DeletePayment(q, order)
        BY <3>1
      <3>3. payments' = kept /\ snap' = Replay(account, kept, snap, order)
            /\ account' = [account EXCEPT !.status = StatusAfterReplay(snap', order)]
        BY <3>2 DEF DeletePayment
      <3>4. DOMAIN kept = Without(q) /\ \A r \in Without(q) : kept[r] = payments[r]
        BY DEF Restrict
      <3>5. IsFiniteSet(DOMAIN kept) /\ \A p \in DOMAIN kept : kept[p].date \in Days
        BY <2>1, <3>4, LedgerAssumption, FS_Subset DEF IInv, HistoryTyped, Without, Payment
      <3>6. SameTerms(account, account') /\ account.start \in Nat
        BY <2>1, <3>3 DEF IInv, HistoryTyped, Account, SameTerms
      <3> HIDE DEF kept
      <3>7. Ordered(kept, order)
        BY <3>5, OrderFacts
      <3>8. Replay(account, kept, snap, order)
              = Replay(account', kept, Replay(account, kept, snap, order), order)
        BY <3>5, <3>6, <3>7, ReplayIdempotent
      <3>9. snap' = Replay(account', payments', snap', order)
        BY <3>3, <3>8
      <3>10. QED
        BY <3>2, <3>3, <3>9 DEF ConsistentAfter, ConsistentIn
    <2>6. QED
      BY <2>1, <2>2, <2>3, <2>4, <2>5 DEF Next
  <1>2. QED
    BY <1>1, InvariantAlways, PTL DEF Spec, DeletionLeavesConsistent

-----------------------------------------------------------------------------
(* What the stored balances are. *)

(* ledger_anchor is typed when the stored balances are. *)
LEMMA LedgerAnchorTyped ==
  ASSUME HistoryTyped, snap \in [Recorded -> Money], NEW order \in Chronological(payments)
  PROVE  AnchorTyped(ledger_anchor(payments, snap, order))
  <1>1. CASE \A i \in Recorded : ~Imported(i)
    <2>1. ledger_anchor(payments, snap, order) = NoAnchor
      BY <1>1, NoImportNoAnchor
    <2>2. AnchorTyped(NoAnchor)
      BY DEF AnchorTyped, NoAnchor
    <2>3. QED
      BY <2>1, <2>2
  <1>2. CASE \E i \in Recorded : Imported(i)
    <2>1. PICK x \in Recorded :
            /\ Imported(x)
            /\ ledger_anchor(payments, snap, order)
                 = AnchorAt(payments[x].date, snap[x].after)
      BY <1>2, LastImport
    <2>2. AnchorDate(payments[x].date) \in Nat
      BY AnchorBounds DEF HistoryTyped, Payment
    <2>3. snap[x].after \in Int
      BY DEF Money
    <2>4. QED
      BY <2>1, <2>2, <2>3 DEF AnchorAt, AnchorTyped
  <1>3. QED
    BY <1>1, <1>2

LEMMA HistoryCounted ==
  ASSUME HistoryTyped
  PROVE  Counted(payments) /\ Terms(account)
  <1>1. IsFiniteSet(Recorded)
    BY LedgerAssumption, FS_Subset DEF HistoryTyped
  <1>2. \A p \in Recorded : payments[p].amount \in Int /\ payments[p].date \in Nat
    BY LedgerAssumption DEF HistoryTyped, Payment, Days
  <1>3. account.borrow \in Nat /\ account.rate \in Nat /\ account.start \in Nat
    BY DEF HistoryTyped, Account
  <1>4. QED
    BY <1>1, <1>2, <1>3 DEF Counted, Terms, Recorded

(* A replay stores whole numbers of cents. *)
LEMMA ReplayTyped ==
  ASSUME NEW acct, Terms(acct), NEW pays, Counted(pays),
         \A p \in DOMAIN pays : pays[p].date \in Days,
         NEW stored, \A p \in DOMAIN pays : stored[p].interest \in Int,
         NEW order, Ordered(pays, order)
  PROVE  Replay(acct, pays, stored, order) \in [DOMAIN pays -> Money]
  <1> DEFINE after == Replay(acct, pays, stored, order)
             n == Len(order)
  <1>1. PICK anchors : Replayed(after, anchors, n, acct, pays, stored, order)
    BY ReplayFollowsOrder
  <1>2. n \in Nat /\ \A i \in 1..n : order[i] \in DOMAIN pays
    BY DEF Ordered
  <1>3. after = [p \in DOMAIN pays |-> after[p]]
    BY <1>2, ReplayIsFunction
  <1> HIDE DEF after, n
  <1> DEFINE Good(i) == (i # 0 => after[order[i]] \in Money) /\ AnchorTyped(anchors[i])
             Bad == {i \in 0..n : ~Good(i)}
  <1>4. Bad = {}
    <2>1. SUFFICES ASSUME Bad # {} PROVE FALSE
      OBVIOUS
    <2>2. PICK i \in Bad : \A k \in Bad : i <= k
      <3>1. Bad \in SUBSET Nat
        OBVIOUS
      <3> HIDE DEF Bad
      <3>2. QED
        BY <2>1, <3>1, LeastExists
    <2>3. i \in 0..n /\ ~Good(i)
      OBVIOUS
    <2>4. i # 0 => i \in 1..n /\ i - 1 \in 0..n /\ ~(i <= i - 1)
      BY <1>2, <2>3
    <2>5. i # 0 => Good(i - 1)
      BY <2>2, <2>4
    <2> HIDE DEF Bad
    <2>6. CASE i = 0
      <3>1. AnchorTyped(anchors[0])
        BY <1>1 DEF Replayed, NoAnchor, AnchorTyped
      <3>2. QED
        BY <2>3, <2>6, <3>1
    <2>7. CASE i # 0
      <3> DEFINE p == order[i]
                 earlier == {order[j] : j \in 1..(i - 1)}
      <3>1. i \in 1..n /\ p \in DOMAIN pays
        BY <1>2, <2>4, <2>7
      <3>2. /\ pays[p].amount \in Int /\ pays[p].date \in Nat /\ pays[p].date \in Days
            /\ stored[p].interest \in Int
        BY <3>1 DEF Counted
      <3>3. AnchorTyped(anchors[i - 1]) /\ (i # 1 => after[order[i - 1]] \in Money)
        BY <2>4, <2>5, <2>7
      <3>4. CASE pays[p].method = "import"
        <4> DEFINE old == IF i = 1 THEN acct.borrow ELSE after[order[i - 1]].after
        <4>1. old \in Int
          BY <3>3 DEF Money, Terms
        <4>2. /\ after[p] = ReplayImport(acct, pays, stored, p, old)
              /\ anchors[i] = AnchorAt(pays[p].date, after[p].after)
          BY <1>1, <3>1, <3>4 DEF Replayed
        <4> HIDE DEF old, p
        <4>3. after[p] \in Money
          BY <3>2, <4>1, <4>2 DEF ReplayImport, Snapshot, Money
        <4>4. AnchorDate(pays[p].date) \in Nat
          BY <3>2, AnchorBounds
        <4>5. AnchorTyped(anchors[i])
          BY <4>2, <4>3, <4>4 DEF AnchorAt, AnchorTyped, Money
        <4>6. QED
          BY <2>3, <4>3, <4>5 DEF p
      <3>5. CASE pays[p].method # "import"
        <4>1. /\ after[p] = ReplayNative(acct, pays, p, earlier, anchors[i - 1])
              /\ anchors[i] = anchors[i - 1]
          BY <1>1, <3>1, <3>5 DEF Replayed
        <4>2. earlier \in SUBSET DOMAIN pays
          <5>1. \A j \in 1..(i - 1) : j \in 1..n
            BY <1>2, <3>1
          <5>2. QED
            BY <1>2, <5>1
        <4> HIDE DEF p, earlier
        <4> DEFINE P == Restrict(pays, earlier)
        <4>3. DOMAIN P = earlier /\ \A q \in earlier : P[q] = pays[q]
          BY DEF Restrict
        <4>4. after[p] = NativeSnapshot(acct, P, pays[p].date, pays[p].amount,
                                        anchors[i - 1])
          BY <4>1 DEF ReplayNative
        <4> HIDE DEF P
        <4>5. Counted(P)
          <5>1. IsFiniteSet(earlier)
            BY <4>2, FS_Subset DEF Counted
          <5>2. QED
            BY <4>2, <4>3, <5>1 DEF Counted
        <4>6. after[p] \in Money
          BY <3>2, <3>3, <4>4, <4>5, NativeSnapshotTyped
        <4>7. QED
          BY <2>3, <3>3, <4>1, <4>6 DEF p
      <3>6. QED
        BY <3>4, <3>5
    <2>8. QED
      BY <2>6, <2>7
  <1>5. ASSUME NEW p \in DOMAIN pays
        PROVE  after[p] \in Money
    <2>1. PICK i \in 1..n : order[i] = p
      BY DEF Ordered, n
    <2>2. i \in 0..n /\ i # 0
      BY <1>2
    <2>3. Good(i)
      BY <1>4, <2>2
    <2>4. QED
      BY <2>1, <2>2, <2>3
  <1>6. after \in [DOMAIN pays -> Money]
    BY <1>3, <1>5
  <1>7. QED
    BY <1>6 DEF after

(* The balance after each row of a file. *)
RunningBalances(after, file, rows, balance) ==
  /\ after[0] = balance
  /\ \A i \in 1..Len(file) :
       after[i] = after[i - 1] + IF i \in rows
                                 THEN file[i].interest - file[i].amount ELSE 0

LEMMA RunningAfterRows ==
  ASSUME NEW file, Len(file) \in Nat, NEW rows, NEW balance
  PROVE  RunningBalances(RunningAfter(file, rows, balance), file, rows, balance)
  <1> DEFINE n == Len(file)
             Step(f, i) == IF i = 0 THEN balance
                           ELSE f[i - 1] + IF i \in rows
                                 THEN file[i].interest - file[i].amount ELSE 0
             after == CHOOSE f : f = [i \in 0..n |-> Step(f, i)]
             Bad == {m \in Nat : ~ \E f : f = [i \in 0..m |-> Step(f, i)]}
  <1>1. RunningAfter(file, rows, balance) = after
    BY DEF RunningAfter
  <1>2. Bad = {}
    <2>1. SUFFICES ASSUME Bad # {} PROVE FALSE
      OBVIOUS
    <2>2. PICK m \in Bad : \A k \in Bad : m <= k
      BY <2>1, LeastExists
    <2>3. CASE m = 0
      <3> DEFINE g == [i \in 0..0 |-> balance]
      <3>1. g = [i \in 0..0 |-> Step(g, i)]
        OBVIOUS
      <3>2. QED
        BY <2>2, <2>3, <3>1
    <2>4. CASE m # 0
      <3>1. m \in Nat /\ m - 1 \in Nat /\ m - 1 \notin Bad
        <4>1. m \in Nat /\ m - 1 \in Nat /\ ~(m <= m - 1)
          BY <2>4
        <4> HIDE DEF Bad
        <4>2. QED
          BY <2>2, <4>1
      <3>2. PICK f : f = [i \in 0..(m - 1) |-> Step(f, i)]
        BY <3>1
      <3> DEFINE g == [i \in 0..m |-> Step(f, i)]
      <3>3. \A i \in 0..(m - 1) : g[i] = f[i]
        <4>1. \A i \in 0..(m - 1) : i \in 0..m
          BY <3>1
        <4> HIDE DEF Step
        <4>2. QED
          BY <3>2, <4>1
      <3>4. ASSUME NEW i \in 0..m
            PROVE  Step(f, i) = Step(g, i)
        <4>1. i # 0 => i - 1 \in 0..(m - 1)
          BY <3>1
        <4> HIDE DEF g
        <4>2. i # 0 => g[i - 1] = f[i - 1]
          BY <3>3, <4>1
        <4>3. QED
          BY <4>2
      <3>5. g = [i \in 0..m |-> Step(g, i)]
        BY <3>4
      <3>6. QED
        BY <2>2, <3>5
    <2>5. QED
      BY <2>3, <2>4
  <1>3. after = [i \in 0..n |-> Step(after, i)]
    BY <1>2
  <1> HIDE DEF after
  <1>4. after[0] = balance
    <2>1. 0 \in 0..n
      OBVIOUS
    <2>2. after[0] = Step(after, 0)
      BY <1>3, <2>1
    <2>3. QED
      BY <2>2
  <1>5. ASSUME NEW i \in 1..n
        PROVE  after[i] = after[i - 1] + IF i \in rows
                                 THEN file[i].interest - file[i].amount ELSE 0
    <2>1. i \in 0..n /\ i # 0
      OBVIOUS
    <2>2. after[i] = Step(after, i)
      BY <1>3, <2>1
    <2>3. QED
      BY <2>1, <2>2
  <1>6. RunningBalances(after, file, rows, balance)
    BY <1>4, <1>5 DEF RunningBalances
  <1>7. QED
    BY <1>1, <1>6

LEMMA RunningTyped ==
  ASSUME NEW file \in Seq(ImportRows), NEW rows, NEW balance \in Int
  PROVE  \A i \in 0..Len(file) : RunningAfter(file, rows, balance)[i] \in Int
  <1> DEFINE after == RunningAfter(file, rows, balance)
             Bad == {i \in 0..Len(file) : after[i] \notin Int}
  <1>1. RunningBalances(after, file, rows, balance) /\ Len(file) \in Nat
    BY RunningAfterRows
  <1>2. \A i \in 1..Len(file) : file[i].interest \in Int /\ file[i].amount \in Int
    <2>1. ASSUME NEW i \in 1..Len(file)
          PROVE  file[i] \in ImportRows
      OBVIOUS
    <2>2. \A r \in ImportRows : r.interest \in Int /\ r.amount \in Int
      BY DEF ImportRows
    <2>3. QED
      BY <2>1, <2>2
  <1> HIDE DEF after
  <1>3. Bad = {}
    <2>1. SUFFICES ASSUME Bad # {} PROVE FALSE
      OBVIOUS
    <2>2. PICK i \in Bad : \A k \in Bad : i <= k
      <3>1. Bad \in SUBSET Nat
        OBVIOUS
      <3> HIDE DEF Bad
      <3>2. QED
        BY <2>1, <3>1, LeastExists
    <2>3. i \in 0..Len(file) /\ after[i] \notin Int
      OBVIOUS
    <2>4. i # 0
      BY <1>1, <2>3 DEF RunningBalances
    <2>5. i \in 1..Len(file) /\ i - 1 \in 0..Len(file) /\ ~(i <= i - 1)
      BY <1>1, <2>3, <2>4
    <2>6. after[i - 1] \in Int
      BY <2>2, <2>5
    <2> HIDE DEF Bad
    <2>7. after[i] = after[i - 1] + IF i \in rows
                                   THEN file[i].interest - file[i].amount ELSE 0
      BY <1>1, <2>5 DEF RunningBalances
    <2>8. file[i].interest \in Int /\ file[i].amount \in Int
      BY <1>2, <2>5
    <2>9. QED
      BY <2>3, <2>6, <2>7, <2>8
  <1>4. QED
    BY <1>3 DEF after

-----------------------------------------------------------------------------
(* The stored snapshots are typed. *)

TypedInv == IInv /\ snap \in [Recorded -> Money]

LEMMA InsertTyped ==
  ASSUME NEW S, NEW f \in [S -> Money], NEW g, \A x \in DOMAIN g : g[x] \in Money
  PROVE  Insert(f, g) \in [S \union DOMAIN g -> Money]
  BY DEF Insert

LEMMA AddSnapTyped ==
  ASSUME TypedInv, NEW p, NEW amount \in Amounts, NEW d \in Days, NEW method,
         NEW order \in Chronological(payments), AddPayment(p, amount, d, method, order)
  PROVE  snap' \in [Recorded' -> Money]
  <1> DEFINE anchor == ledger_anchor(payments, snap, order)
             s == LiveSnapshot(amount, d, anchor)
             row == [date |-> d, amount |-> amount, method |-> method]
  <1>1. AnchorTyped(anchor)
    BY LedgerAnchorTyped DEF TypedInv, IInv
  <1>2. Counted(payments) /\ Terms(account)
    BY HistoryCounted DEF TypedInv, IInv
  <1>3. d \in Nat /\ amount \in Int
    BY LedgerAssumption DEF Days
  <1> HIDE DEF anchor
  <1>4. s \in Money
    BY <1>1, <1>2, <1>3, NativeSnapshotTyped DEF LiveSnapshot
  <1>5. /\ payments' = Insert(payments, [q \in {p} |-> row])
        /\ snap' = Insert(snap, [q \in {p} |-> s])
    BY DEF AddPayment, anchor
  <1> HIDE DEF s, row
  <1>6. Recorded' = Recorded \union {p}
    <2>1. DOMAIN Insert(payments, [q \in {p} |-> row]) = DOMAIN payments \union {p}
      BY DEF Insert
    <2>2. QED
      BY <1>5, <2>1 DEF Recorded
  <1> DEFINE new == [q \in {p} |-> s]
  <1>7. DOMAIN new = {p} /\ \A x \in DOMAIN new : new[x] \in Money
    BY <1>4
  <1>8. Insert(snap, new) \in [Recorded \union DOMAIN new -> Money]
    <2> HIDE DEF new
    <2>1. QED
      BY <1>7, InsertTyped DEF TypedInv
  <1>9. QED
    BY <1>5, <1>6, <1>7, <1>8

LEMMA DeleteSnapTyped ==
  ASSUME TypedInv, NEW p \in Recorded,
         NEW order \in Chronological(Restrict(payments, Without(p))),
         DeletePayment(p, order)
  PROVE  snap' \in [Recorded' -> Money]
  <1> DEFINE kept == Restrict(payments, Without(p))
  <1>1. payments' = kept /\ snap' = Replay(account, kept, snap, order)
    BY DEF DeletePayment
  <1>2. DOMAIN kept = Without(p) /\ \A r \in Without(p) : kept[r] = payments[r]
    BY DEF Restrict
  <1>3. Counted(payments) /\ Terms(account)
    BY HistoryCounted DEF TypedInv, IInv
  <1>4. Without(p) \in SUBSET Recorded
    BY DEF Without
  <1>5. Counted(kept)
    <2>1. IsFiniteSet(Without(p))
      BY <1>3, <1>4, FS_Subset DEF Counted, Recorded
    <2> HIDE DEF kept
    <2>2. QED
      BY <1>2, <1>3, <1>4, <2>1 DEF Counted, Recorded
  <1>6. \A q \in DOMAIN kept : kept[q].date \in Days /\ snap[q].interest \in Int
    <2>1. \A q \in Recorded : payments[q].date \in Days /\ snap[q].interest \in Int
      BY DEF TypedInv, IInv, HistoryTyped, Payment, Money
    <2> HIDE DEF kept
    <2>2. QED
      BY <1>2, <1>4, <2>1
  <1>7. order \in Chronological(kept)
    OBVIOUS
  <1> HIDE DEF kept
  <1>8. Ordered(kept, order)
    BY <1>5, <1>7, OrderFacts DEF Counted
  <1>9. Replay(account, kept, snap, order) \in [DOMAIN kept -> Money]
    BY <1>3, <1>5, <1>6, <1>8, ReplayTyped
  <1>10. QED
    BY <1>1, <1>9 DEF Recorded

LEMMA ImportSnapTyped ==
  ASSUME TypedInv, NEW file \in ImportFiles, NEW rows \in SUBSET DOMAIN file,
         NEW new \in Injection(rows, Ids \ Recorded), NEW acct, NEW balance \in Int,
         InsertImported(acct, file, new, balance), Recorded' = Recorded \union Range(new)
  PROVE  snap' \in [Recorded' -> Money]
  <1> DEFINE row(p) == CHOOSE i \in DOMAIN new : new[i] = p
             after == RunningAfter(file, DOMAIN new, balance)
             added == [p \in Range(new) |-> Snapshot(after[row(p) - 1],
                                               file[row(p)].interest,
                                               file[row(p)].amount)]
  <1>1. snap' = Insert(snap, added)
    BY DEF InsertImported
  <1>2. file \in Seq(ImportRows) /\ DOMAIN file = 1..Len(file) /\ Len(file) \in Nat
    BY LedgerAssumption
  <1>3. \A i \in 0..Len(file) : after[i] \in Int
    BY <1>2, RunningTyped
  <1>4. ASSUME NEW i \in DOMAIN file
        PROVE  file[i].interest \in Int /\ file[i].amount \in Int /\ after[i - 1] \in Int
    <2>1. file[i] \in ImportRows
      BY <1>2
    <2>2. \A r \in ImportRows : r.interest \in Int /\ r.amount \in Int
      BY DEF ImportRows
    <2>3. i - 1 \in 0..Len(file)
      BY <1>2
    <2> HIDE DEF after
    <2>4. QED
      BY <1>3, <2>1, <2>2, <2>3
  <1>5. \A p \in Range(new) : row(p) \in DOMAIN file
    BY DEF Range, Injection
  <1> HIDE DEF row, after
  <1>6. DOMAIN added = Range(new) /\ \A p \in Range(new) : added[p] \in Money
    BY <1>4, <1>5 DEF Snapshot, Money
  <1> HIDE DEF added
  <1>7. QED
    BY <1>1, <1>6, InsertTyped DEF TypedInv

LEMMA ExistingImportSnapTyped ==
  ASSUME TypedInv, NEW file \in ImportFiles, NEW order \in Chronological(payments),
         ImportExisting(file, order)
  PROVE  snap' \in [Recorded' -> Money]
  <1> DEFINE rows == Accepted(file, HistoryEnd(order).date)
             balance == HistoryEnd(order).balance
  <1>1. PICK new \in Injection(rows, Ids \ Recorded) :
          InsertImported(account, file, new, balance)
    BY DEF ImportExisting
  <1>2. rows \in SUBSET DOMAIN file
    BY DEF Accepted
  <1>3. account \in Account /\ account.status # "none" /\ account.start \in Days
    BY DEF ImportExisting, Exists, TypedInv, IInv, HistoryTyped
  <1>4. balance \in Int
    <2>1. CASE order = <<>>
      BY <1>3, <2>1 DEF HistoryEnd, Disbursement, Account
    <2>2. CASE order # <<>>
      <3>1. Recorded # {}
        <4>1. ASSUME Recorded = {} PROVE FALSE
          <5>1. order \in [1..0 -> {}]
            BY <4>1, FS_EmptySet DEF Chronological, Bijection, Injection, Recorded
          <5>2. QED
            BY <2>2, <5>1
        <4>2. QED
          BY <4>1
      <3>2. order[Len(order)] \in Recorded
        BY <3>1, OrderOfRows DEF TypedInv, IInv
      <3>3. snap[order[Len(order)]].after \in Int
        BY <3>2 DEF TypedInv, Money
      <3>4. QED
        BY <2>2, <3>3 DEF HistoryEnd
    <2>3. QED
      BY <2>1, <2>2
  <1> HIDE DEF rows, balance
  <1>5. Recorded' = Recorded \union Range(new)
    BY <1>1, <1>2, <1>3, ImportTyped DEF TypedInv, IInv
  <1>6. QED
    BY <1>1, <1>2, <1>4, <1>5, ImportSnapTyped

LEMMA CreateImportSnapTyped ==
  ASSUME TypedInv, NEW file \in ImportFiles, ImportCreate(file)
  PROVE  snap' \in [Recorded' -> Money]
  <1>1. Recorded = {}
    BY DEF TypedInv, IInv, HistoryTyped, ImportCreate
  <1>2. PICK b \in Borrowed, r \in Rates \union {0}, s \in StartDays :
          \E new \in Injection(Accepted(file, s), Ids) :
            InsertImported(NewAccount(b, r, s), file, new, b)
    BY DEF ImportCreate
  <1> DEFINE acct == NewAccount(b, r, s)
             rows == Accepted(file, s)
  <1>3. PICK new \in Injection(rows, Ids) : InsertImported(acct, file, new, b)
    BY <1>2
  <1>4. rows \in SUBSET DOMAIN file /\ Ids = Ids \ Recorded
    BY <1>1 DEF Accepted
  <1>5. acct \in Account /\ acct.status # "none" /\ acct.start \in Days /\ b \in Int
    BY NewAccountTyped, LedgerAssumption
  <1> HIDE DEF acct, rows
  <1>6. Recorded' = Recorded \union Range(new)
    BY <1>3, <1>4, <1>5, ImportTyped DEF TypedInv, IInv
  <1>7. QED
    BY <1>3, <1>4, <1>5, <1>6, ImportSnapTyped

LEMMA TypedInvHolds == TypedInv /\ [Next]_vars => TypedInv'
  <1>1. SUFFICES ASSUME TypedInv, [Next]_vars PROVE snap' \in [Recorded' -> Money]
    BY InvariantHolds DEF TypedInv
  <1>2. CASE \/ Tick \/ CreateAccount \/ UpdateAccount \/ CloseAccount
             \/ UNCHANGED vars
    BY <1>1, <1>2 DEF TypedInv, Tick, CreateAccount, UpdateAccount, CloseAccount, vars,
                      Recorded
  <1>3. CASE \E force \in BOOLEAN : PurgeAccount(force)
    BY <1>3 DEF PurgeAccount, Recorded
  <1>4. CASE AddSome
    <2>1. PICK p \in Ids \ Recorded, a \in Amounts, d \in Days,
               m \in {"auto", "manual"}, order \in Chronological(payments) :
            AddPayment(p, a, d, m, order)
      BY <1>4 DEF AddSome
    <2>2. QED
      BY <1>1, <2>1, AddSnapTyped
  <1>5. CASE DeleteSome
    <2>1. PICK p \in Recorded :
            \E order \in Chronological(Restrict(payments, Without(p))) :
              DeletePayment(p, order)
      BY <1>5 DEF DeleteSome
    <2>2. PICK order \in Chronological(Restrict(payments, Without(p))) :
            DeletePayment(p, order)
      BY <2>1
    <2>3. QED
      BY <1>1, <2>2, DeleteSnapTyped
  <1>6. CASE ImportSome
    BY <1>1, <1>6, ExistingImportSnapTyped, CreateImportSnapTyped DEF ImportSome
  <1>7. QED
    BY <1>1, <1>2, <1>3, <1>4, <1>5, <1>6 DEF Next

LEMMA TypedInvAlways == Spec => []TypedInv
  <1>1. Init => TypedInv
    <2>1. Init => snap \in [Recorded -> Money]
      BY DEF Init, Recorded
    <2>2. Init => IInv
      BY InitTyped DEF Init, IInv, NoPaymentInAnchorGap, Recorded
    <2>3. QED
      BY <2>1, <2>2 DEF TypedInv
  <1>2. QED
    BY <1>1, TypedInvHolds, PTL DEF Spec

(* The stored snapshots are whole numbers of cents, however many times the *)
(* history is replayed: projections, sums and rounded interest never leave *)
(* the integers, and no step uses a balance that is not there.             *)
THEOREM LedgerAlwaysTyped == Spec => []TypeOK
  <1>1. TypedInv => TypeOK
    BY DEF TypedInv, IInv, TypeOK, Money
  <1>2. QED
    BY <1>1, TypedInvAlways, PTL

-----------------------------------------------------------------------------
(* Every live payment is counted once. *)

LEMMA AmountOfUnion ==
  ASSUME NEW pays, Counted(pays), NEW S \in SUBSET DOMAIN pays,
         NEW T \in SUBSET DOMAIN pays, S \intersect T = {}
  PROVE  /\ AmountOf(pays, S) \in Int /\ AmountOf(pays, T) \in Int
         /\ AmountOf(pays, S \union T) = AmountOf(pays, S) + AmountOf(pays, T)
  <1> DEFINE amount == [p \in DOMAIN pays |-> pays[p].amount]
  <1>1. /\ IsFiniteSet(S) /\ IsFiniteSet(T)
        /\ \A x \in S \union T : amount[x] \in Int
    BY FS_Subset DEF Counted
  <1> HIDE DEF amount
  <1>2. SumFunctionOnSet(amount, S \union T)
          = SumFunctionOnSet(amount, S) + SumFunctionOnSet(amount, T)
    BY <1>1, SumOfUnion
  <1>3. QED
    BY <1>2, AmountIsInt DEF AmountOf, amount

(* The live payments dated up to a cycle. *)
LiveUpTo(acct, pays, anchor, c) ==
  {p \in LivePayments(acct, pays, anchor) : pays[p].date <= c}

(* The first period has the live payments up to its cycle, and each later  *)
(* one those between two cycles: none is left out and none is in two.      *)
LEMMA PeriodsPartition ==
  ASSUME NEW acct, Terms(acct), NEW pays, Counted(pays), NEW anchor, AnchorTyped(anchor),
         NEW cycles, NEW n \in Nat,
         \A i \in 1..n : cycles[i] \in Nat /\ Origin(acct.start, anchor) <= cycles[i],
         \A i, j \in 1..n : i < j => cycles[i] < cycles[j],
         NEW i \in 1..n
  PROVE  LET period == PeriodPayments(acct, pays, anchor, cycles, i)
             UpTo(k) == LiveUpTo(acct, pays, anchor, cycles[k])
         IN  /\ i = 1 => UpTo(i) = period
             /\ i # 1 => /\ UpTo(i) = UpTo(i - 1) \union period
                         /\ UpTo(i - 1) \intersect period = {}
  <1> DEFINE period == PeriodPayments(acct, pays, anchor, cycles, i)
             UpTo(k) == LiveUpTo(acct, pays, anchor, cycles[k])
  <1>1. cycles[i] \in Nat /\ \A p \in DOMAIN pays : pays[p].date \in Nat
    BY DEF Counted
  <1>2. acct.start \in Nat /\ (anchor.some => anchor.date \in Nat)
    BY DEF Terms, AnchorTyped
  <1>3. CASE i = 1
    <2>1. ASSUME NEW p \in DOMAIN pays
          PROVE  p \in UpTo(i) <=> p \in period
      <3>1. p \in AfterAnchor(pays, anchor) =>
              ((~anchor.some => pays[p].date >= acct.start)
                 <=> Origin(acct.start, anchor) <= pays[p].date)
        BY <1>1, <1>2 DEF AfterAnchor, Origin
      <3>2. p \in UpTo(i) <=> /\ p \in AfterAnchor(pays, anchor)
                              /\ ~anchor.some => pays[p].date >= acct.start
                              /\ pays[p].date <= cycles[i]
        BY DEF LiveUpTo, LivePayments
      <3>3. p \in period <=> /\ p \in AfterAnchor(pays, anchor)
                             /\ Origin(acct.start, anchor) <= pays[p].date
                             /\ pays[p].date <= cycles[i]
        BY <1>3 DEF PeriodPayments, InPeriod
      <3>4. QED
        BY <3>1, <3>2, <3>3
    <2>2. UpTo(i) \subseteq DOMAIN pays /\ period \subseteq DOMAIN pays
      BY DEF LiveUpTo, LivePayments, PeriodPayments, AfterAnchor
    <2>3. UpTo(i) = period
      BY <2>1, <2>2
    <2>4. QED
      BY <1>3, <2>3
  <1>4. CASE i # 1
    <2>1. i - 1 \in 1..n /\ i - 1 < i
      BY <1>4
    <2>2. /\ cycles[i - 1] \in Nat /\ cycles[i - 1] < cycles[i]
          /\ Origin(acct.start, anchor) <= cycles[i - 1]
      BY <2>1
    <2>3. ASSUME NEW p \in DOMAIN pays
          PROVE  /\ p \in UpTo(i) <=> p \in UpTo(i - 1) \/ p \in period
                 /\ ~(p \in UpTo(i - 1) /\ p \in period)
      <3>1. \A k : p \in UpTo(k) <=> /\ p \in AfterAnchor(pays, anchor)
                                     /\ ~anchor.some => pays[p].date >= acct.start
                                     /\ pays[p].date <= cycles[k]
        BY DEF LiveUpTo, LivePayments
      <3>2. p \in period <=> /\ p \in AfterAnchor(pays, anchor)
                             /\ cycles[i - 1] < pays[p].date
                             /\ pays[p].date <= cycles[i]
        BY <1>4 DEF PeriodPayments, InPeriod
      <3>3. cycles[i - 1] < pays[p].date => (~anchor.some => pays[p].date >= acct.start)
        BY <1>1, <1>2, <2>2 DEF Origin
      <3> HIDE DEF UpTo, period
      <3>4. QED
        BY <1>1, <2>2, <3>1, <3>2, <3>3
    <2>4. /\ UpTo(i) \subseteq DOMAIN pays /\ UpTo(i - 1) \subseteq DOMAIN pays
          /\ period \subseteq DOMAIN pays
      BY DEF LiveUpTo, LivePayments, PeriodPayments, AfterAnchor
    <2> HIDE DEF UpTo, period
    <2>5. UpTo(i) = UpTo(i - 1) \union period /\ UpTo(i - 1) \intersect period = {}
      BY <2>3, <2>4
    <2>6. QED
      BY <1>4, <2>5 DEF UpTo, period
  <1>5. QED
    BY <1>3, <1>4

(* What a row of a projection closes on. *)
ClosesOn(rows, n, i, acct, pays, anchor, cycles) ==
  rows[i].closing = OpeningBalance(acct.borrow, anchor)
    + SumFunctionOnSet([k \in 1..n |-> rows[k].interest], 1..i)
    - AmountOf(pays, LiveUpTo(acct, pays, anchor, cycles[i]))

(* The cycles are in order and none is before the origin. *)
CyclesFrom(cycles, n, origin) ==
  /\ \A i \in 1..n : cycles[i] \in Nat /\ origin <= cycles[i]
  /\ \A i, j \in 1..n : i < j => cycles[i] < cycles[j]

(* A projected row closes on what was opened with, the interest of the     *)
(* cycles so far and every live payment so far.                            *)
LEMMA ClosingOfRow ==
  ASSUME NEW acct, Terms(acct), NEW pays, Counted(pays), NEW anchor, AnchorTyped(anchor),
         NEW cycles, NEW n \in Nat,
         CyclesFrom(cycles, n, Origin(acct.start, anchor)),
         NEW rows, ProjectedRows(rows, n, acct, pays, anchor, cycles)
  PROVE  \A i \in 1..n : ClosesOn(rows, n, i, acct, pays, anchor, cycles)
  <1> DEFINE interest == [k \in 1..n |-> rows[k].interest]
             opened == OpeningBalance(acct.borrow, anchor)
             Charged(i) == SumFunctionOnSet(interest, 1..i)
             Paid(i) == AmountOf(pays, LiveUpTo(acct, pays, anchor, cycles[i]))
             period(i) == AmountOf(pays, PeriodPayments(acct, pays, anchor, cycles, i))
             Good(i) == rows[i].closing = opened + Charged(i) - Paid(i)
             Bad == {i \in 1..n : ~Good(i)}
  <1>1. \A i \in 1..n : /\ rows[i].opening \in Int /\ rows[i].interest \in Int
                        /\ rows[i].closing \in Int
    BY RowsAreInt
  <1>2. opened \in Int
    BY OpeningIsInt
  <1>3. ASSUME NEW i \in 1..n
        PROVE  /\ period(i) \in Int /\ Paid(i) \in Int
               /\ i = 1 => Paid(i) = period(i)
               /\ i # 1 => Paid(i - 1) \in Int /\ Paid(i) = Paid(i - 1) + period(i)
    <2> DEFINE P == PeriodPayments(acct, pays, anchor, cycles, i)
               UpTo(k) == LiveUpTo(acct, pays, anchor, cycles[k])
    <2>1. /\ i = 1 => UpTo(i) = P
          /\ i # 1 => UpTo(i) = UpTo(i - 1) \union P /\ UpTo(i - 1) \intersect P = {}
      BY PeriodsPartition DEF CyclesFrom
    <2>2. /\ P \in SUBSET DOMAIN pays /\ UpTo(i) \in SUBSET DOMAIN pays
          /\ UpTo(i - 1) \in SUBSET DOMAIN pays
      BY DEF PeriodPayments, LiveUpTo, LivePayments, AfterAnchor
    <2> HIDE DEF P, UpTo
    <2>3. /\ AmountOf(pays, P) \in Int /\ AmountOf(pays, UpTo(i)) \in Int
          /\ i = 1 => AmountOf(pays, UpTo(i)) = AmountOf(pays, P)
          /\ i # 1 => /\ AmountOf(pays, UpTo(i - 1)) \in Int
                      /\ AmountOf(pays, UpTo(i))
                           = AmountOf(pays, UpTo(i - 1)) + AmountOf(pays, P)
      <3>1. AmountOf(pays, P) \in Int /\ AmountOf(pays, UpTo(i)) \in Int
        BY <2>2, AmountIsInt
      <3>2. ASSUME i = 1 PROVE AmountOf(pays, UpTo(i)) = AmountOf(pays, P)
        BY <2>1, <3>2
      <3>3. ASSUME i # 1
            PROVE  /\ AmountOf(pays, UpTo(i - 1)) \in Int
                   /\ AmountOf(pays, UpTo(i))
                        = AmountOf(pays, UpTo(i - 1)) + AmountOf(pays, P)
        <4> DEFINE Q == UpTo(i - 1)
        <4>1. Q \in SUBSET DOMAIN pays /\ UpTo(i) = Q \union P /\ Q \intersect P = {}
          BY <2>1, <2>2, <3>3
        <4> HIDE DEF Q
        <4>2. /\ AmountOf(pays, Q) \in Int
              /\ AmountOf(pays, Q \union P) = AmountOf(pays, Q) + AmountOf(pays, P)
          BY <2>2, <4>1, AmountOfUnion
        <4>3. AmountOf(pays, UpTo(i)) = AmountOf(pays, Q) + AmountOf(pays, P)
          BY <4>1, <4>2
        <4>4. QED
          BY <4>2, <4>3 DEF Q
      <3>4. QED
        BY <3>1, <3>2, <3>3
    <2>4. QED
      BY <2>3 DEF P, UpTo
  <1>4. ASSUME NEW i \in 1..n
        PROVE  /\ Charged(i) \in Int
               /\ i = 1 => Charged(i) = rows[i].interest
               /\ i # 1 => /\ Charged(i - 1) \in Int
                           /\ Charged(i) = Charged(i - 1) + rows[i].interest
    <2>1. /\ IsFiniteSet(1..i) /\ IsFiniteSet(1..(i - 1)) /\ i \in 1..i
          /\ (1..i) \ {i} = 1..(i - 1)
      <3>1. 1 \in Int /\ i \in Int /\ i - 1 \in Int /\ i \in 1..i
        OBVIOUS
      <3>2. IsFiniteSet(1..i) /\ IsFiniteSet(1..(i - 1))
        BY <3>1, FS_Interval
      <3>3. (1..i) \ {i} = 1..(i - 1)
        OBVIOUS
      <3>4. QED
        BY <3>1, <3>2, <3>3
    <2>2. /\ \A x \in 1..i : interest[x] \in Int
          /\ \A x \in 1..(i - 1) : interest[x] \in Int
          /\ interest[i] = rows[i].interest
      BY <1>1
    <2>3. i = 1 => 1..(i - 1) = {}
      OBVIOUS
    <2> HIDE DEF interest
    <2>4. /\ Charged(i) \in Int
          /\ Charged(i) = interest[i] + SumFunctionOnSet(interest, (1..i) \ {i})
      <3> DEFINE S == 1..i
      <3>1. IsFiniteSet(S) /\ (\A x \in S : interest[x] \in Int) /\ i \in S
        BY <2>1, <2>2
      <3> HIDE DEF S
      <3>2. /\ SumFunctionOnSet(interest, S) \in Int
            /\ SumFunctionOnSet(interest, S)
                 = interest[i] + SumFunctionOnSet(interest, S \ {i})
        <4>1. /\ SumFunctionOnSet(interest, S) \in Int
              /\ \A x \in S : SumFunctionOnSet(interest, S)
                               = interest[x] + SumFunctionOnSet(interest, S \ {x})
          BY ONLY <3>1, SumFacts
        <4>2. QED
          BY <3>1, <4>1
      <3>3. QED
        BY <3>2 DEF S
    <2>5. /\ SumFunctionOnSet(interest, 1..(i - 1)) \in Int
          /\ SumFunctionOnSet(interest, {}) = 0
      <3> DEFINE S == 1..(i - 1)
      <3>1. IsFiniteSet(S) /\ \A x \in S : interest[x] \in Int
        BY <2>1, <2>2
      <3> HIDE DEF S
      <3>2. SumFunctionOnSet(interest, S) \in Int /\ SumFunctionOnSet(interest, {}) = 0
        BY <3>1, SumFacts
      <3>3. QED
        BY <3>2 DEF S
    <2>6. interest[i] \in Int /\ Charged(i) = interest[i] + Charged(i - 1)
      BY <2>1, <2>2, <2>4
    <2>7. i = 1 => Charged(i - 1) = 0
      BY <2>3, <2>5
    <2> HIDE DEF Charged
    <2>8. Charged(i - 1) \in Int
      BY <2>5 DEF Charged
    <2>9. QED
      BY <2>2, <2>4, <2>6, <2>7, <2>8
  <1>5. ASSUME NEW i \in 1..n
        PROVE  /\ rows[i].closing = rows[i].opening + rows[i].interest - period(i)
               /\ rows[i].opening = OpeningOf(acct, anchor, rows, i)
    <2>1. rows[i] = LedgerRow(acct, pays, anchor, cycles, i,
                              OpeningOf(acct, anchor, rows, i))
      BY DEF ProjectedRows
    <2>2. QED
      BY <2>1 DEF LedgerRow
  <1> HIDE DEF opened, Charged, Paid, period
  <1>6. Bad = {}
    <2>1. SUFFICES ASSUME Bad # {} PROVE FALSE
      OBVIOUS
    <2>2. PICK i \in Bad : \A k \in Bad : i <= k
      <3>1. Bad \in SUBSET Nat
        OBVIOUS
      <3> HIDE DEF Bad
      <3>2. QED
        BY <2>1, <3>1, LeastExists
    <2>3. i \in 1..n /\ ~Good(i)
      OBVIOUS
    <2> HIDE DEF Bad
    <2>4. /\ rows[i].opening \in Int /\ rows[i].interest \in Int
          /\ rows[i].closing = rows[i].opening + rows[i].interest - period(i)
          /\ period(i) \in Int
      BY <1>1, <1>3, <1>5, <2>3
    <2>5. CASE i = 1
      <3>1. rows[i].opening = opened
        BY <1>5, <2>3, <2>5 DEF OpeningOf, opened
      <3>2. Charged(i) = rows[i].interest /\ Paid(i) = period(i)
        BY <1>3, <1>4, <2>3, <2>5
      <3>3. QED
        BY <2>3, <2>4, <3>1, <3>2
    <2>6. CASE i # 1
      <3>1. i - 1 \in 1..n /\ ~(i <= i - 1)
        BY <2>3, <2>6
      <3>2. Good(i - 1)
        BY <2>2, <3>1 DEF Bad
      <3>3. rows[i].opening = rows[i - 1].closing
        BY <1>5, <2>3, <2>6 DEF OpeningOf
      <3>4. /\ Charged(i - 1) \in Int /\ Charged(i) = Charged(i - 1) + rows[i].interest
            /\ Paid(i - 1) \in Int /\ Paid(i) = Paid(i - 1) + period(i)
        BY <1>3, <1>4, <2>3, <2>6
      <3>5. rows[i].closing
              = (opened + Charged(i - 1) - Paid(i - 1)) + rows[i].interest - period(i)
        BY <2>4, <3>2, <3>3
      <3>6. QED
        BY <1>2, <2>3, <2>4, <3>4, <3>5
    <2>7. QED
      BY <2>5, <2>6
  <1>7. QED
    BY <1>6 DEF opened, Charged, Paid, ClosesOn

(* The displayed balance counts every live payment exactly once, in one    *)
(* period or as pending, and each projected cycle's interest once, in      *)
(* whatever order the rows were returned.                                  *)
THEOREM LivePaymentsAlwaysCountedOnce == Spec => []LivePaymentsCountedOnce
  <1>1. TypedInv => LivePaymentsCountedOnce
    <2> DEFINE Anchor(order) == ledger_anchor(payments, snap, order)
               as_of == balance_as_of(payments, today)
               Rows(order) == project_ledger(account, payments, as_of, Anchor(order))
               Opened(order) == OpeningBalance(account.borrow, Anchor(order))
               live(order) == LivePayments(account, payments, Anchor(order))
    <2>1. SUFFICES ASSUME TypedInv, Exists, NEW order \in Chronological(payments)
                   PROVE
                     compute_current_balance(account, payments, Anchor(order), as_of)
                       = Opened(order)
                           + SumFunction([i \in DOMAIN Rows(order) |->
                                            Rows(order)[i].interest])
                           - AmountOf(payments, live(order))
      BY DEF LivePaymentsCountedOnce, AsReturned
    <2> DEFINE anchor == Anchor(order)
               rows == Rows(order)
               n == Len(rows)
               cycles == LedgerCycles(account, as_of, anchor)
               from == Origin(account.start, anchor) + (IF anchor.some THEN 1 ELSE 0)
               interest == [i \in DOMAIN rows |-> rows[i].interest]
               pending == {p \in live(order) :
                             /\ payments[p].date <= as_of
                             /\ n > 0 => rows[n].cycle_date < payments[p].date}
    <2>2. /\ HistoryTyped /\ Counted(payments) /\ Terms(account)
          /\ AnchorTyped(anchor)
      BY <2>1, HistoryCounted, LedgerAnchorTyped DEF TypedInv, IInv
    <2>3. as_of \in Nat /\ \A p \in DOMAIN payments : payments[p].date <= as_of
      BY <2>2, AsOfBounds DEF Recorded
    <2>4. compute_current_balance(account, payments, anchor, as_of)
            = (IF n > 0 THEN rows[n].closing ELSE Opened(order))
                - AmountOf(payments, pending)
      BY DEF compute_current_balance
    <2> HIDE DEF Anchor, as_of
    <2>5. /\ CoversCycles(rows, from, as_of) /\ Len(cycles) = n
          /\ ProjectedRows(rows, n, account, payments, anchor, cycles)
      <3> HIDE DEF anchor
      <3>1. /\ account.start \in Nat /\ anchor.some \in BOOLEAN
            /\ anchor.some => anchor.date \in Nat
        BY <2>2 DEF Terms, AnchorTyped
      <3>2. rows = project_ledger(account, payments, as_of, anchor)
        BY DEF anchor
      <3> HIDE DEF rows
      <3>3. QED
        BY <2>3, <3>1, <3>2, ProjectionDates
    <2>6. n \in Nat /\ DOMAIN rows = 1..n
      BY <2>5 DEF CoversCycles
    <2>7. SumFunction(interest) = SumFunctionOnSet(interest, DOMAIN interest)
      BY DEF SumFunction
    <2>8. live(order) \in SUBSET DOMAIN payments
      BY DEF LivePayments, AfterAnchor
    <2>9. from \in Nat /\ Origin(account.start, anchor) \in Nat
          /\ Origin(account.start, anchor) <= from
      <3> HIDE DEF anchor
      <3>1. QED
        BY <2>2 DEF Origin, Terms, AnchorTyped
    <2>10. Opened(order) \in Int
      <3>1. OpeningBalance(account.borrow, anchor) \in Int
        <4> HIDE DEF anchor
        <4>1. QED
          BY <2>2, OpeningIsInt
      <3>2. QED
        BY <3>1
    <2> DEFINE target == compute_current_balance(account, payments, anchor, as_of)
               lives == live(order)
               opened == Opened(order)
    <2>11. SUFFICES target = opened + SumFunctionOnSet(interest, 1..n)
                               - AmountOf(payments, lives)
      BY <2>6, <2>7
    <2>12. DOMAIN interest = 1..n /\ interest = [i \in 1..n |-> rows[i].interest]
      BY <2>6
    <2>13. target = (IF n > 0 THEN rows[n].closing ELSE opened)
                      - AmountOf(payments, pending)
      BY <2>4
    <2>14. /\ pending = {p \in lives :
                           /\ payments[p].date <= as_of
                           /\ n > 0 => rows[n].cycle_date < payments[p].date}
           /\ lives = LivePayments(account, payments, anchor)
      OBVIOUS
    <2>15. lives \in SUBSET DOMAIN payments /\ opened \in Int
           /\ opened = OpeningBalance(account.borrow, anchor)
      BY <2>8, <2>10
    <2> HIDE DEF anchor, rows, n, cycles, from, interest, pending, target, lives, opened
    <2>16. CASE n = 0
      <3>1. pending = lives
        BY <2>3, <2>14, <2>15, <2>16
      <3>2. 1..n = {}
        BY <2>16
      <3>3. SumFunctionOnSet(interest, {}) = 0
        BY FS_EmptySet, SumFacts
      <3>4. AmountOf(payments, lives) \in Int
        BY <2>2, <2>15, AmountIsInt
      <3>5. target = opened - AmountOf(payments, lives)
        BY <2>13, <2>16, <3>1
      <3>6. SumFunctionOnSet(interest, 1..n) = 0
        BY <3>2, <3>3
      <3>7. QED
        BY <2>15, <3>4, <3>5, <3>6
    <2>17. CASE n # 0
      <3>1. n \in 1..n /\ n > 0
        BY <2>6, <2>17
      <3>2. ASSUME NEW i \in 1..n
            PROVE  /\ rows[i].cycle_date = cycles[i]
                   /\ cycles[i] \in Nat /\ Origin(account.start, anchor) <= cycles[i]
        <4>1. rows[i] = LedgerRow(account, payments, anchor, cycles, i,
                                  OpeningOf(account, anchor, rows, i))
          BY <2>5 DEF ProjectedRows
        <4>2. rows[i].cycle_date = cycles[i]
          BY <4>1 DEF LedgerRow
        <4>3. rows[i].cycle_date \in CycleDays /\ from <= rows[i].cycle_date
          BY <2>5 DEF CoversCycles, n
        <4>4. \A c \in CycleDays : from <= c =>
                c \in Nat /\ Origin(account.start, anchor) <= c
          BY <2>9, CyclesAssumption
        <4>5. QED
          BY <4>2, <4>3, <4>4
      <3>3. \A i, j \in 1..n : i < j => cycles[i] < cycles[j]
        BY <2>5, <3>2 DEF CoversCycles, n
      <3> DEFINE UpTo == LiveUpTo(account, payments, anchor, cycles[n])
                 Charged == SumFunctionOnSet(interest, 1..n)
      <3>4. rows[n].closing = opened + Charged - AmountOf(payments, UpTo)
        <4>1. CyclesFrom(cycles, n, Origin(account.start, anchor))
          BY <3>2, <3>3 DEF CyclesFrom
        <4>2. ClosesOn(rows, n, n, account, payments, anchor, cycles)
          BY <2>2, <2>5, <2>6, <3>1, <4>1, ClosingOfRow
        <4>3. QED
          BY <2>12, <2>15, <4>2 DEF ClosesOn
      <3>5. /\ lives = UpTo \union pending /\ UpTo \intersect pending = {}
            /\ UpTo \in SUBSET DOMAIN payments /\ pending \in SUBSET DOMAIN payments
        <4>1. cycles[n] \in Nat /\ rows[n].cycle_date = cycles[n]
          BY <3>1, <3>2
        <4>2. \A p \in lives : payments[p].date \in Nat /\ payments[p].date <= as_of
          BY <2>2, <2>3, <2>15 DEF Counted
        <4>3. UpTo = {p \in lives : payments[p].date <= cycles[n]}
          BY <2>14 DEF LiveUpTo
        <4>4. pending = {p \in lives : cycles[n] < payments[p].date}
          BY <2>14, <3>1, <4>1, <4>2
        <4> HIDE DEF UpTo
        <4>5. \A p \in lives : p \in UpTo <=> p \notin pending
          BY <4>1, <4>2, <4>3, <4>4
        <4>6. UpTo \subseteq lives /\ pending \subseteq lives
          BY <4>3, <4>4
        <4>7. QED
          BY <2>15, <4>5, <4>6
      <3>6. Charged \in Int
        <4> DEFINE S == 1..n
        <4>1. IsFiniteSet(S)
          BY <2>6, FS_Interval
        <4>2. \A i \in S : rows[i].interest \in Int
          BY <2>2, <2>5, <2>6, RowsAreInt
        <4>3. \A i \in S : interest[i] \in Int
          BY <2>12, <4>2
        <4> HIDE DEF S
        <4>4. SumFunctionOnSet(interest, S) \in Int
          BY <4>1, <4>3, SumFacts
        <4>5. QED
          BY <4>4 DEF S
      <3> HIDE DEF UpTo, Charged
      <3>7. /\ AmountOf(payments, UpTo) \in Int /\ AmountOf(payments, pending) \in Int
            /\ AmountOf(payments, lives)
                 = AmountOf(payments, UpTo) + AmountOf(payments, pending)
        BY <2>2, <3>5, AmountOfUnion
      <3>8. target = (opened + Charged - AmountOf(payments, UpTo))
                       - AmountOf(payments, pending)
        BY <2>13, <3>1, <3>4
      <3>9. target = opened + Charged - AmountOf(payments, lives)
        BY <2>15, <3>6, <3>7, <3>8
      <3>10. QED
        BY <3>9 DEF Charged
    <2>18. QED
      BY <2>16, <2>17
  <1>2. QED
    BY <1>1, TypedInvAlways, PTL

-----------------------------------------------------------------------------
(* What a native snapshot depends on; replays are unique. *)

(* The payments made before day d are the same in two histories. *)
SameBefore(pays1, pays2, d) ==
  /\ \A q \in DOMAIN pays1 : pays1[q].date < d => q \in DOMAIN pays2 /\ pays2[q] = pays1[q]
  /\ \A q \in DOMAIN pays2 : pays2[q].date < d => q \in DOMAIN pays1 /\ pays2[q] = pays1[q]

(* The snapshot of a native payment depends on the payments before its day *)
(* and on nothing else of the history: payments of the same day come in    *)
(* any order.                                                              *)
LEMMA NativeSnapshotLocal ==
  ASSUME NEW acct1, NEW acct2, SameTerms(acct1, acct2), acct1.start \in Nat,
         NEW pays1, Counted(pays1), NEW pays2, Counted(pays2),
         NEW anchor, AnchorDated(anchor), NEW d \in Nat, NEW amount,
         SameBefore(pays1, pays2, d)
  PROVE  NativeSnapshot(acct1, pays1, d, amount, anchor)
           = NativeSnapshot(acct2, pays2, d, amount, anchor)
  <1> DEFINE cycles == LedgerCycles(acct1, d, anchor)
  <1>1. ASSUME NEW i \in 1..Len(cycles), cycles[i] < d, cycles[i] \in Nat
        PROVE  PeriodTotal(acct1, pays1, anchor, cycles, i)
                 = PeriodTotal(acct2, pays2, anchor, cycles, i)
    <2> DEFINE P1 == PeriodPayments(acct1, pays1, anchor, cycles, i)
               P2 == PeriodPayments(acct2, pays2, anchor, cycles, i)
               amount1 == [p \in DOMAIN pays1 |-> pays1[p].amount]
               amount2 == [p \in DOMAIN pays2 |-> pays2[p].amount]
    <2>1. acct1.start = acct2.start
      BY DEF SameTerms
    <2> HIDE DEF cycles
    <2>2. /\ \A p \in P1 : p \in DOMAIN pays1 /\ pays1[p].date <= cycles[i]
          /\ \A p \in P2 : p \in DOMAIN pays2 /\ pays2[p].date <= cycles[i]
      BY DEF PeriodPayments, InPeriod, AfterAnchor
    <2>3. /\ \A p \in P1 : pays1[p].date < d
          /\ \A p \in P2 : pays2[p].date < d
      BY <1>1, <2>2 DEF Counted
    <2>4. ASSUME NEW p, p \in DOMAIN pays1, p \in DOMAIN pays2, pays1[p] = pays2[p]
          PROVE  p \in P1 <=> p \in P2
      BY <2>1, <2>4 DEF PeriodPayments, AfterAnchor
    <2>5. P1 = P2
      <3>1. \A p \in P1 : p \in DOMAIN pays2 /\ pays1[p] = pays2[p]
        BY <2>2, <2>3 DEF SameBefore
      <3>2. \A p \in P2 : p \in DOMAIN pays1 /\ pays1[p] = pays2[p]
        BY <2>2, <2>3 DEF SameBefore
      <3> HIDE DEF P1, P2
      <3>3. QED
        BY <2>2, <2>4, <3>1, <3>2
    <2>6. P1 \in SUBSET DOMAIN pays1 /\ P2 \in SUBSET DOMAIN pays2
      BY <2>2
    <2>7. \A p \in P1 : amount1[p] \in Int /\ amount2[p] = amount1[p]
      <3>1. \A p \in P1 : /\ p \in DOMAIN pays1 /\ p \in DOMAIN pays2
                          /\ pays1[p] = pays2[p]
        BY <2>2, <2>3 DEF SameBefore
      <3>2. QED
        BY <3>1 DEF Counted
    <2>8. IsFiniteSet(P1)
      BY <2>6, FS_Subset DEF Counted
    <2> HIDE DEF P1, P2, amount1, amount2
    <2>9. SumFunctionOnSet(amount2, P1) = SumFunctionOnSet(amount1, P1)
      BY <2>7, <2>8, SumCongruent
    <2>10. AmountOf(pays1, P1) = AmountOf(pays2, P2)
      BY <2>5, <2>9 DEF AmountOf, amount1, amount2
    <2>11. QED
      BY <2>10 DEF PeriodTotal, P1, P2
  <1>2. \A i \in 1..Len(cycles) : cycles[i] \in Nat
    <2> DEFINE from == Origin(acct1.start, anchor) + (IF anchor.some THEN 1 ELSE 0)
    <2>1. from \in Nat
      BY DEF Origin, AnchorDated
    <2>2. cycles = get_cycle_dates(from, d)
      BY DEF LedgerCycles
    <2> HIDE DEF from, cycles
    <2>3. LET L == get_cycle_dates(from, d)
          IN  \A i \in 1..Len(L) : L[i] \in CycleDays
      BY <2>1, CyclesEnumerated
    <2>4. QED
      BY <2>2, <2>3, CyclesAssumption
  <1>3. \A i \in 1..Len(LedgerCycles(acct1, d, anchor)) :
          LedgerCycles(acct1, d, anchor)[i] < d =>
            PeriodTotal(acct1, pays1, anchor, LedgerCycles(acct1, d, anchor), i)
              = PeriodTotal(acct2, pays2, anchor, LedgerCycles(acct1, d, anchor), i)
    BY <1>1, <1>2
  <1> HIDE DEF cycles
  <1>4. QED
    BY <1>3, NativeSnapshotAgrees

(* A part of a history is counted when the history is. *)
LEMMA PartCounted ==
  ASSUME NEW pays, Counted(pays), NEW ids \in SUBSET DOMAIN pays
  PROVE  /\ Counted(Restrict(pays, ids)) /\ DOMAIN Restrict(pays, ids) = ids
         /\ \A q \in ids : Restrict(pays, ids)[q] = pays[q]
  <1> DEFINE P == Restrict(pays, ids)
  <1>1. DOMAIN P = ids /\ \A q \in ids : P[q] = pays[q]
    BY DEF Restrict
  <1>2. IsFiniteSet(ids)
    BY FS_Subset DEF Counted
  <1> HIDE DEF P
  <1>3. Counted(P)
    BY <1>1, <1>2 DEF Counted
  <1>4. QED
    BY <1>1, <1>3 DEF P

(* What follows an order step by step is the replay in that order. *)
LEMMA ReplayUnique ==
  ASSUME NEW acct, acct.start \in Nat, NEW pays, \A p \in DOMAIN pays : pays[p].date \in Days,
         NEW stored, NEW order, Ordered(pays, order),
         NEW after, after = [p \in DOMAIN pays |-> after[p]],
         NEW anchors, Replayed(after, anchors, Len(order), acct, pays, stored, order)
  PROVE  after = Replay(acct, pays, stored, order)
  <1> DEFINE new == Replay(acct, pays, stored, order)
             n == Len(order)
  <1>1. PICK anchors2 : Replayed(new, anchors2, n, acct, pays, stored, order)
    BY ReplayFollowsOrder
  <1>2. new = [p \in DOMAIN pays |-> new[p]]
    BY ReplayIsFunction DEF Ordered
  <1> HIDE DEF new
  <1>3. SameSteps(pays, stored, order, pays, stored, order, n) /\ n \in Nat
    BY DEF SameSteps, Ordered
  <1>4. SameTerms(acct, acct)
    BY DEF SameTerms
  <1>5. SameResults(after, anchors, new, anchors2, order, n)
    BY <1>1, <1>3, <1>4, ReplaysAgree
  <1>6. ASSUME NEW p \in DOMAIN pays PROVE after[p] = new[p]
    <2>1. PICK i \in 1..n : order[i] = p
      BY DEF Ordered
    <2>2. after[order[i]] = new[order[i]]
      BY <1>5 DEF SameResults
    <2>3. QED
      BY <2>1, <2>2
  <1>7. after = new
    BY <1>2, <1>6
  <1>8. QED
    BY <1>7 DEF new

NoImportUpTo(pays, order, k) == \A j \in 1..k : pays[order[j]].method # "import"

LastImportAt(pays, order, k, m) ==
  /\ m \in 1..k /\ pays[order[m]].method = "import"
  /\ \A j \in 1..k : m < j => pays[order[j]].method # "import"

AnchorOfLastImport(after, anchors, pays, order, k) ==
  /\ NoImportUpTo(pays, order, k) => anchors[k] = NoAnchor
  /\ \A m \in 1..k : LastImportAt(pays, order, k, m) =>
       anchors[k] = AnchorAt(pays[order[m]].date, after[order[m]].after)

(* The anchor after the first n steps is that of the last import in them.  *)
LEMMA AnchorsFollowImports ==
  ASSUME NEW acct, NEW pays, NEW stored, NEW order, NEW n \in Nat, NEW after, NEW anchors,
         Replayed(after, anchors, n, acct, pays, stored, order), NEW k \in 0..n
  PROVE  AnchorOfLastImport(after, anchors, pays, order, k)
  <1> DEFINE Native(j) == pays[order[j]].method # "import"
             From(m) == AnchorAt(pays[order[m]].date, after[order[m]].after)
             Good(i) == /\ (\A j \in 1..i : Native(j)) => anchors[i] = NoAnchor
                        /\ \A m \in 1..i :
                             ~Native(m) /\ (\A j \in 1..i : m < j => Native(j))
                               => anchors[i] = From(m)
             Bad == {i \in 0..n : ~Good(i)}
  <1>1. anchors[0] = NoAnchor
    BY DEF Replayed
  <1>2. \A i \in 1..n : /\ Native(i) => anchors[i] = anchors[i - 1]
                        /\ ~Native(i) => anchors[i] = From(i)
    BY DEF Replayed
  <1> HIDE DEF Native, From
  <1>3. Bad = {}
    <2>1. SUFFICES ASSUME Bad # {} PROVE FALSE
      OBVIOUS
    <2>2. PICK i \in Bad : \A j \in Bad : i <= j
      <3>1. Bad \in SUBSET Nat
        OBVIOUS
      <3> HIDE DEF Bad
      <3>2. QED
        BY <2>1, <3>1, LeastExists
    <2>3. i \in 0..n /\ ~Good(i)
      OBVIOUS
    <2>4. i # 0
      BY <1>1, <2>3
    <2>5. i \in 1..n /\ i - 1 \in 0..n /\ ~(i <= i - 1) /\ i \in 1..i
      BY <2>3, <2>4
    <2>6. Good(i - 1)
      BY <2>2, <2>5
    <2> HIDE DEF Bad
    <2>7. CASE ~Native(i)
      <3>1. anchors[i] = From(i)
        BY <1>2, <2>5, <2>7
      <3>2. \A m \in 1..i : (\A j \in 1..i : m < j => Native(j)) => m = i
        BY <2>5, <2>7
      <3>3. QED
        BY <2>3, <2>5, <2>7, <3>1, <3>2
    <2>8. CASE Native(i)
      <3>1. anchors[i] = anchors[i - 1]
        BY <1>2, <2>5, <2>8
      <3>2. \A j \in 1..(i - 1) : j \in 1..i
        BY <2>5
      <3>3. \A m \in 1..i : ~Native(m) => m \in 1..(i - 1)
        BY <2>5, <2>8
      <3>4. QED
        BY <2>3, <2>6, <3>1, <3>2, <3>3
    <2>9. QED
      BY <2>7, <2>8
  <1>4. Good(k)
    BY <1>3
  <1>5. QED
    BY <1>4 DEF Native, From, NoImportUpTo, LastImportAt, AnchorOfLastImport

(* After a whole replay it is the anchor that ledger_anchor finds. *)
LEMMA LastAnchorOfReplay ==
  ASSUME NEW acct, NEW pays, NEW stored, NEW order, Ordered(pays, order),
         NEW after, NEW anchors,
         Replayed(after, anchors, Len(order), acct, pays, stored, order)
  PROVE  anchors[Len(order)] = ledger_anchor(pays, after, order)
  <1> DEFINE n == Len(order)
             imports == {i \in DOMAIN order : pays[order[i]].method = "import"}
  <1>1. n \in Nat /\ DOMAIN order = 1..n /\ n \in 0..n
    BY DEF Ordered
  <1>2. AnchorOfLastImport(after, anchors, pays, order, n)
    BY <1>1, AnchorsFollowImports
  <1>3. CASE imports = {}
    <2>1. NoImportUpTo(pays, order, n)
      BY <1>1, <1>3 DEF NoImportUpTo
    <2>2. anchors[n] = NoAnchor
      BY <1>2, <2>1 DEF AnchorOfLastImport
    <2>3. ledger_anchor(pays, after, order) = NoAnchor
      BY <1>3 DEF ledger_anchor
    <2>4. QED
      BY <2>2, <2>3
  <1>4. CASE imports # {}
    <2>1. PICK m \in imports : \A l \in imports : l <= m
      <3>1. imports \in SUBSET Nat /\ \A l \in imports : l <= n
        BY <1>1
      <3> HIDE DEF imports
      <3>2. QED
        BY <1>1, <1>4, <3>1, GreatestExists
    <2>2. Max(imports) = m
      <3>1. \A l \in imports : m >= l /\ l \in Nat
        BY <1>1, <2>1
      <3> HIDE DEF imports
      <3>2. Max(imports) \in imports /\ \A l \in imports : Max(imports) >= l
        BY <2>1, <3>1 DEF Max
      <3>3. QED
        BY <2>1, <3>1, <3>2
    <2>3. LastImportAt(pays, order, n, m)
      BY <1>1, <2>1 DEF LastImportAt
    <2>4. anchors[n] = AnchorAt(pays[order[m]].date, after[order[m]].after)
      BY <1>1, <1>2, <2>1, <2>3 DEF AnchorOfLastImport
    <2>5. ledger_anchor(pays, after, order)
            = AnchorAt(pays[order[m]].date, after[order[m]].after)
      BY <1>4, <2>2 DEF ledger_anchor
    <2>6. QED
      BY <2>4, <2>5
  <1>5. QED
    BY <1>3, <1>4

-----------------------------------------------------------------------------
(* A payment put in its place among the others. *)

(* A sequence that lists a history's payments once each, by date, is an    *)
(* order its rows may be returned in.                                      *)
LEMMA OrderIsChronological ==
  ASSUME NEW pays, NEW order, Ordered(pays, order),
         order = [i \in 1..Len(order) |-> order[i]]
  PROVE  order \in Chronological(pays)
  <1> DEFINE n == Len(order)
             D == DOMAIN pays
  <1>1. /\ n \in Nat /\ DOMAIN order = 1..n
        /\ \A i \in 1..n : order[i] \in D
        /\ \A p \in D : \E i \in 1..n : order[i] = p
        /\ \A i, j \in 1..n : order[i] = order[j] => i = j
        /\ \A i, j \in 1..n : i < j => pays[order[i]].date <= pays[order[j]].date
    BY DEF Ordered
  <1>2. order = [i \in 1..n |-> order[i]]
    OBVIOUS
  <1> HIDE DEF n, D
  <1>3. order \in [1..n -> D]
    BY <1>1, <1>2
  <1>4. order \in Bijection(1..n, D)
    BY <1>1, <1>3 DEF Bijection, Injection, IsInjective, Surjection
  <1>5. Cardinality(D) = n
    BY <1>1, <1>4, FS_CountingElements DEF ExistsBijection
  <1>6. QED
    BY <1>1, <1>4, <1>5 DEF Chronological, D

(* In a history whose rows are in order, those up to a day come first.     *)
UpToDay(pays, order, d, k) ==
  /\ k \in 0..Len(order)
  /\ \A i \in 1..Len(order) : i <= k <=> pays[order[i]].date <= d

LEMMA UpToDayExists ==
  ASSUME NEW pays, Counted(pays), NEW order, Ordered(pays, order), NEW d \in Nat
  PROVE  \E k : UpToDay(pays, order, d, k)
  <1> DEFINE n == Len(order)
             S == {i \in 0..n : i = 0 \/ pays[order[i]].date <= d}
  <1>1. /\ n \in Nat
        /\ \A i \in 1..n : order[i] \in DOMAIN pays
        /\ \A i, j \in 1..n : i < j => pays[order[i]].date <= pays[order[j]].date
    BY DEF Ordered
  <1>2. \A i \in 1..n : pays[order[i]].date \in Nat
    BY <1>1 DEF Counted
  <1>3. S \in SUBSET Nat /\ S # {} /\ \A i \in S : i <= n
    <2>1. 0 \in S
      BY <1>1
    <2>2. QED
      BY <1>1, <2>1
  <1>4. PICK k \in S : \A i \in S : i <= k
    <2> HIDE DEF S
    <2>1. QED
      BY <1>1, <1>3, GreatestExists
  <1>5. ASSUME NEW i \in 1..n
        PROVE  i <= k <=> pays[order[i]].date <= d
    <2>1. pays[order[i]].date <= d => i <= k
      BY <1>4
    <2>2. ASSUME i <= k PROVE pays[order[i]].date <= d
      <3>1. k \in 1..n /\ pays[order[k]].date <= d
        BY <1>1, <1>4, <2>2
      <3>2. i = k \/ pays[order[i]].date <= pays[order[k]].date
        BY <1>1, <2>2, <3>1
      <3>3. QED
        BY <1>2, <3>1, <3>2
    <2>3. QED
      BY <2>1, <2>2
  <1>6. QED
    BY <1>4, <1>5 DEF UpToDay

(* p put after the first k rows of an order. *)
PutAfter(order, k, p) ==
  [i \in 1..(Len(order) + 1) |->
     IF i <= k THEN order[i] ELSE IF i = k + 1 THEN p ELSE order[i - 1]]

(* The history more has one row more than pays. *)
RowAdded(pays, more, p) ==
  /\ p \notin DOMAIN pays /\ DOMAIN more = DOMAIN pays \union {p}
  /\ \A q \in DOMAIN pays : more[q] = pays[q]
  /\ more[p].date \in Nat

PutIn(more, order, k, p) ==
  /\ Ordered(more, PutAfter(order, k, p))
  /\ PutAfter(order, k, p) \in Chronological(more)
  /\ Len(PutAfter(order, k, p)) = Len(order) + 1

LEMMA PutAfterOrdered ==
  ASSUME NEW pays, Counted(pays), NEW order, Ordered(pays, order), NEW p, NEW more,
         RowAdded(pays, more, p), NEW k, UpToDay(pays, order, more[p].date, k)
  PROVE  PutIn(more, order, k, p)
  <1> DEFINE n == Len(order)
             new == PutAfter(order, k, p)
             d == more[p].date
             was(i) == IF i <= k THEN i ELSE i - 1
  <1>1. /\ n \in Nat /\ k \in 0..n /\ d \in Nat
        /\ \A i \in 1..n : order[i] \in DOMAIN pays
        /\ \A q \in DOMAIN pays : \E i \in 1..n : order[i] = q
        /\ \A i, j \in 1..n : order[i] = order[j] => i = j
        /\ \A i, j \in 1..n : i < j => pays[order[i]].date <= pays[order[j]].date
        /\ \A i \in 1..n : i <= k <=> pays[order[i]].date <= d
        /\ p \notin DOMAIN pays /\ DOMAIN more = DOMAIN pays \union {p}
        /\ \A q \in DOMAIN pays : more[q] = pays[q]
    BY DEF Ordered, UpToDay, RowAdded
  <1>2. \A i \in 1..n : more[order[i]].date = pays[order[i]].date
                        /\ pays[order[i]].date \in Nat
    BY <1>1 DEF Counted
  <1>3. /\ DOMAIN new = 1..(n + 1)
        /\ new = [i \in 1..(n + 1) |-> new[i]]
        /\ \A i \in 1..(n + 1) : new[i] = IF i = k + 1 THEN p ELSE order[was(i)]
    BY <1>1 DEF PutAfter
  <1>4. Len(new) = n + 1 /\ n + 1 \in Nat
    BY <1>1, <1>3
  <1>5. ASSUME NEW i \in 1..(n + 1), i # k + 1
        PROVE  was(i) \in 1..n /\ (was(i) <= k <=> i <= k)
    BY <1>1, <1>5
  <1>6. \A i \in 1..n : \E j \in 1..(n + 1) : j # k + 1 /\ was(j) = i
    <2>1. SUFFICES ASSUME NEW i \in 1..n
                   PROVE  \E j \in 1..(n + 1) : j # k + 1 /\ was(j) = i
      OBVIOUS
    <2>2. CASE i <= k
      BY <1>1, <2>2
    <2>3. CASE ~(i <= k)
      <3>1. i + 1 \in 1..(n + 1) /\ i + 1 # k + 1 /\ was(i + 1) = i
        BY <1>1, <2>3
      <3>2. QED
        BY <3>1
    <2>4. QED
      BY <2>2, <2>3
  <1>7. \A i, j \in 1..(n + 1) : i # k + 1 /\ j # k + 1 =>
          /\ was(i) = was(j) => i = j
          /\ i < j => was(i) < was(j)
    BY <1>1
  <1> HIDE DEF new, d, was, n
  <1>8. \A i \in 1..(n + 1) : new[i] \in DOMAIN more
    BY <1>1, <1>3, <1>5
  <1>9. \A q \in DOMAIN more : \E i \in 1..(n + 1) : new[i] = q
    <2>1. SUFFICES ASSUME NEW q \in DOMAIN more
                   PROVE  \E i \in 1..(n + 1) : new[i] = q
      OBVIOUS
    <2>2. CASE q = p
      <3>1. k + 1 \in 1..(n + 1)
        BY <1>1
      <3>2. QED
        BY <1>3, <2>2, <3>1
    <2>3. CASE q # p
      <3>1. PICK i \in 1..n : order[i] = q
        BY <1>1, <2>3
      <3>2. PICK j \in 1..(n + 1) : j # k + 1 /\ was(j) = i
        BY <1>6
      <3>3. QED
        BY <1>3, <3>1, <3>2
    <2>4. QED
      BY <2>2, <2>3
  <1>10. ASSUME NEW i \in 1..(n + 1), NEW j \in 1..(n + 1), new[i] = new[j]
         PROVE  i = j
    <2>1. ASSUME NEW m \in 1..(n + 1), m # k + 1
          PROVE  new[m] \in DOMAIN pays /\ new[m] # p
      <3>1. new[m] = order[was(m)] /\ was(m) \in 1..n
        BY <1>3, <1>5, <2>1
      <3>2. QED
        BY <1>1, <3>1
    <2>2. i = k + 1 <=> j = k + 1
      BY <1>3, <1>10, <2>1
    <2>3. CASE i # k + 1
      <3>1. order[was(i)] = order[was(j)] /\ was(i) \in 1..n /\ was(j) \in 1..n
        BY <1>3, <1>5, <1>10, <2>2, <2>3
      <3>2. QED
        BY <1>1, <1>7, <2>2, <2>3, <3>1
    <2>4. QED
      BY <2>2, <2>3
  <1>11. ASSUME NEW i \in 1..(n + 1), NEW j \in 1..(n + 1), i < j
         PROVE  more[new[i]].date <= more[new[j]].date
    <2>1. CASE i # k + 1 /\ j # k + 1
      <3>1. was(i) \in 1..n /\ was(j) \in 1..n /\ was(i) < was(j)
        BY <1>5, <1>7, <1>11, <2>1
      <3>2. pays[order[was(i)]].date <= pays[order[was(j)]].date
        BY <1>1, <3>1
      <3>3. new[i] = order[was(i)] /\ new[j] = order[was(j)]
        BY <1>3, <2>1
      <3>4. QED
        BY <1>2, <3>1, <3>2, <3>3
    <2>2. CASE i = k + 1
      <3>1. j # k + 1 /\ ~(j <= k) /\ new[i] = p
        BY <1>1, <1>3, <1>11, <2>2
      <3>2. was(j) \in 1..n /\ ~(was(j) <= k)
        BY <1>5, <3>1
      <3>3. ~(pays[order[was(j)]].date <= d) /\ pays[order[was(j)]].date \in Nat
        BY <1>1, <1>2, <3>2
      <3>4. more[new[j]].date = pays[order[was(j)]].date
        BY <1>2, <1>3, <3>1, <3>2
      <3>5. QED
        BY <1>1, <3>1, <3>3, <3>4 DEF d
    <2>3. CASE j = k + 1
      <3>1. i # k + 1 /\ i <= k /\ new[j] = p
        BY <1>1, <1>3, <1>11, <2>3
      <3>2. was(i) \in 1..n /\ was(i) <= k
        BY <1>5, <3>1
      <3>3. pays[order[was(i)]].date <= d
        BY <1>1, <3>2
      <3>4. more[new[i]].date = pays[order[was(i)]].date
        BY <1>2, <1>3, <3>1, <3>2
      <3>5. QED
        BY <3>1, <3>3, <3>4 DEF d
    <2>4. QED
      BY <2>1, <2>2, <2>3
  <1>12. Ordered(more, new)
    BY <1>3, <1>4, <1>8, <1>9, <1>10, <1>11 DEF Ordered
  <1>13. new \in Chronological(more)
    BY <1>3, <1>4, <1>12, OrderIsChronological
  <1>14. QED
    BY <1>4, <1>12, <1>13 DEF new, n, PutIn

(* Steps without an import leave the anchor as it is. *)
LEMMA AnchorsUntouched ==
  ASSUME NEW after, NEW anchors, NEW n \in Nat, NEW acct, NEW pays, NEW stored, NEW order,
         Replayed(after, anchors, n, acct, pays, stored, order), NEW k \in 0..n,
         \A j \in 1..n : k < j => pays[order[j]].method # "import"
  PROVE  \A i \in k..n : anchors[i] = anchors[k]
  <1> DEFINE Bad == {i \in k..n : anchors[i] # anchors[k]}
  <1>1. Bad = {}
    <2>1. SUFFICES ASSUME Bad # {} PROVE FALSE
      OBVIOUS
    <2>2. PICK i \in Bad : \A j \in Bad : i <= j
      <3>1. Bad \in SUBSET Nat
        OBVIOUS
      <3> HIDE DEF Bad
      <3>2. QED
        BY <2>1, <3>1, LeastExists
    <2>3. i \in k..n /\ anchors[i] # anchors[k]
      OBVIOUS
    <2>4. i \in 1..n /\ k < i /\ i - 1 \in k..n /\ ~(i <= i - 1)
      BY <2>3
    <2>5. anchors[i - 1] = anchors[k]
      BY <2>2, <2>4
    <2>6. anchors[i] = anchors[i - 1]
      BY <2>4 DEF Replayed
    <2>7. QED
      BY <2>3, <2>5, <2>6
  <1>2. QED
    BY <1>1

LEMMA ReplayedPrefix ==
  ASSUME NEW after, NEW anchors, NEW n \in Nat, NEW acct, NEW pays, NEW stored, NEW order,
         Replayed(after, anchors, n, acct, pays, stored, order), NEW k \in 0..n
  PROVE  Replayed(after, anchors, k, acct, pays, stored, order)
  <1>1. \A i \in 1..k : i \in 1..n
    OBVIOUS
  <1>2. QED
    BY <1>1 DEF Replayed

-----------------------------------------------------------------------------
(* Consistent histories. *)

(* The stored snapshots follow an order step by step. *)
StoredInOrder(order, anchors) ==
  /\ order \in Chronological(payments) /\ Ordered(payments, order)
  /\ Replayed(snap, anchors, Len(order), account, payments, snap, order)
  /\ anchors[Len(order)] = ledger_anchor(payments, snap, order)

LEMMA ConsistentSteps ==
  ASSUME HistoryTyped, ConsistentBefore
  PROVE  \E order, anchors : StoredInOrder(order, anchors)
  <1>1. PICK order \in Chronological(payments) :
          snap = Replay(account, payments, snap, order)
    BY DEF ConsistentBefore, ConsistentIn
  <1>2. Ordered(payments, order)
    BY HistoryCounted, OrderFacts DEF Counted
  <1>3. PICK anchors : Replayed(Replay(account, payments, snap, order), anchors,
                                Len(order), account, payments, snap, order)
    BY <1>2, ReplayFollowsOrder
  <1>4. Replayed(snap, anchors, Len(order), account, payments, snap, order)
    BY <1>1, <1>3
  <1>5. anchors[Len(order)] = ledger_anchor(payments, snap, order)
    BY <1>2, <1>4, LastAnchorOfReplay
  <1>6. QED
    BY <1>2, <1>4, <1>5 DEF StoredInOrder

(* What add_payment leaves. *)
PaymentAdded(p, amount, d, method, anchor) ==
  /\ DOMAIN payments' = Recorded \union {p}
  /\ \A q \in Recorded : payments'[q] = payments[q] /\ snap'[q] = snap[q]
  /\ payments'[p] = [date |-> d, amount |-> amount, method |-> method]
  /\ DOMAIN snap' = Recorded \union {p}
  /\ snap' = [q \in Recorded \union {p} |-> snap'[q]]
  /\ snap'[p] = NativeSnapshot(account, payments, d, amount, anchor)
  /\ anchor.some => d > anchor.date
  /\ SameTerms(account, account')

LEMMA AddedRow ==
  ASSUME HistoryTyped, NEW p \in Ids \ Recorded, NEW amount \in Amounts, NEW d \in Days,
         NEW method \in {"auto", "manual"}, NEW order \in Chronological(payments),
         AddPayment(p, amount, d, method, order)
  PROVE  PaymentAdded(p, amount, d, method, ledger_anchor(payments, snap, order))
  <1> DEFINE row == [date |-> d, amount |-> amount, method |-> method]
             anchor == ledger_anchor(payments, snap, order)
             s == LiveSnapshot(amount, d, anchor)
             new == [q \in {p} |-> row]
             stored == [q \in {p} |-> s]
  <1>1. /\ payments' = Insert(payments, new) /\ snap' = Insert(snap, stored)
        /\ account' = [account EXCEPT !.status = StatusAfterAdd(s.after)]
        /\ anchor.some => d > anchor.date
    BY DEF AddPayment
  <1>2. account \in Account
    BY DEF HistoryTyped
  <1>3. SameTerms(account, account')
    BY <1>1, <1>2 DEF SameTerms, Account
  <1>4. DOMAIN new = {p} /\ new[p] = row /\ DOMAIN stored = {p} /\ stored[p] = s
    OBVIOUS
  <1>5. DOMAIN payments = Recorded /\ DOMAIN snap = Recorded
    BY DEF HistoryTyped, Recorded
  <1> HIDE DEF new, stored, anchor, row, s
  <1>6. /\ DOMAIN payments' = Recorded \union {p} /\ payments'[p] = row
        /\ \A q \in Recorded : payments'[q] = payments[q]
    <2>1. /\ DOMAIN Insert(payments, new) = DOMAIN payments \union DOMAIN new
          /\ \A x \in DOMAIN payments : Insert(payments, new)[x] = payments[x]
          /\ \A x \in DOMAIN new \ DOMAIN payments : Insert(payments, new)[x] = new[x]
      BY InsertRows
    <2>2. QED
      BY <1>1, <1>4, <1>5, <2>1
  <1>7. /\ DOMAIN snap' = Recorded \union {p} /\ snap'[p] = s
        /\ \A q \in Recorded : snap'[q] = snap[q]
    <2>1. /\ DOMAIN Insert(snap, stored) = DOMAIN snap \union DOMAIN stored
          /\ \A x \in DOMAIN snap : Insert(snap, stored)[x] = snap[x]
          /\ \A x \in DOMAIN stored \ DOMAIN snap : Insert(snap, stored)[x] = stored[x]
      BY InsertRows
    <2>2. QED
      BY <1>1, <1>4, <1>5, <2>1
  <1>8. snap' = [q \in Recorded \union {p} |-> snap'[q]]
    <2>1. snap' = [q \in DOMAIN snap' |-> snap'[q]]
      BY <1>1 DEF Insert
    <2>2. QED
      BY <1>7, <2>1
  <1>9. QED
    BY <1>1, <1>3, <1>6, <1>7, <1>8 DEF anchor, row, s, LiveSnapshot, PaymentAdded

(* A payment may only be added after every import. *)
LEMMA NoImportFrom ==
  ASSUME HistoryTyped, NEW order \in Chronological(payments), NEW d \in Days,
         ledger_anchor(payments, snap, order).some =>
           d > ledger_anchor(payments, snap, order).date,
         NEW i \in Recorded, Imported(i)
  PROVE  payments[i].date < d
  <1> DEFINE anchor == ledger_anchor(payments, snap, order)
  <1>1. anchor.some /\ anchor.date \in Nat /\ AnchorDate(payments[i].date) <= anchor.date
    BY LastAnchor
  <1>2. payments[i].date \in Days /\ payments[i].date \in Nat /\ d \in Nat
    BY LedgerAssumption DEF HistoryTyped, Payment, Days
  <1>3. AnchorDate(payments[i].date) \in Nat
        /\ payments[i].date <= AnchorDate(payments[i].date)
    BY <1>2, AnchorBounds
  <1> HIDE DEF anchor
  <1>4. anchor.some => d > anchor.date
    BY DEF anchor
  <1>5. QED
    BY <1>1, <1>2, <1>3, <1>4

LEMMA LiveIsReplay ==
  ASSUME HistoryTyped, ConsistentBefore, ~ImportTie(payments),
         NEW p \in Ids \ Recorded, NEW amount \in Amounts, NEW d \in Days,
         NEW method \in {"auto", "manual"}, NEW order \in Chronological(payments),
         AddPayment(p, amount, d, method, order)
  PROVE  \E new \in Chronological(payments') :
           snap'[p] = Replay(account', payments', snap', new)[p]
  <1> DEFINE anchor == ledger_anchor(payments, snap, order)
             more == payments'
             stored == snap'
             acct == account'
  <1>1. /\ DOMAIN more = Recorded \union {p}
        /\ \A q \in Recorded : more[q] = payments[q] /\ stored[q] = snap[q]
        /\ more[p] = [date |-> d, amount |-> amount, method |-> method]
        /\ stored[p] = NativeSnapshot(account, payments, d, amount, anchor)
        /\ anchor.some => d > anchor.date
        /\ SameTerms(account, acct)
    <2>1. PaymentAdded(p, amount, d, method, anchor)
      BY AddedRow
    <2> HIDE DEF anchor
    <2>2. QED
      BY <2>1 DEF PaymentAdded
  <1>2. Counted(payments) /\ account.start \in Nat /\ d \in Nat
    BY HistoryCounted, LedgerAssumption DEF Terms, Days
  <1>3. PICK o0, anchors0 : StoredInOrder(o0, anchors0)
    BY ConsistentSteps
  <1>4. /\ o0 \in Chronological(payments) /\ Ordered(payments, o0)
        /\ Replayed(snap, anchors0, Len(o0), account, payments, snap, o0)
        /\ anchors0[Len(o0)] = anchor
    BY <1>3, AnchorDetermined DEF StoredInOrder
  <1>5. \A i \in Recorded : payments[i].method = "import" => payments[i].date < d
    <2> HIDE DEF more, stored, acct
    <2>1. QED
      BY <1>1, NoImportFrom DEF Imported
  <1>6. \A q \in Recorded : payments[q].date \in Days /\ payments[q].date \in Nat
    BY LedgerAssumption DEF HistoryTyped, Payment, Days
  <1> DEFINE n == Len(o0)
  <1> HIDE DEF anchor, more, stored, acct
  <1>7. more[p].date = d /\ more[p].amount = amount /\ more[p].method # "import"
    BY <1>1
  <1>8. DOMAIN payments = Recorded
    BY DEF Recorded
  <1>9. PICK k : UpToDay(payments, o0, d, k)
    BY <1>2, <1>4, UpToDayExists
  <1> DEFINE new == PutAfter(o0, k, p)
  <1>10. Ordered(more, new) /\ new \in Chronological(more) /\ Len(new) = n + 1
    <2>1. UpToDay(payments, o0, more[p].date, k)
      BY <1>7, <1>9
    <2>2. RowAdded(payments, more, p)
      BY <1>1, <1>2, <1>7, <1>8 DEF RowAdded
    <2> HIDE DEF new
    <2>3. PutIn(more, o0, k, p)
      BY <1>2, <1>4, <2>1, <2>2, PutAfterOrdered
    <2>4. QED
      BY <2>3 DEF new, PutIn
  <1>11. /\ n \in Nat /\ k \in 0..n /\ k + 1 \in 1..(n + 1)
         /\ \A i \in 1..n : o0[i] \in Recorded
         /\ \A q \in Recorded : \E i \in 1..n : o0[i] = q
         /\ \A i \in 1..n : i <= k <=> payments[o0[i]].date <= d
    BY <1>4, <1>8, <1>9 DEF Ordered, UpToDay
  <1>12. new[k + 1] = p /\ \A i \in 1..k : new[i] = o0[i]
    BY <1>11 DEF PutAfter
  <1>13. Replayed(snap, anchors0, k, account, payments, snap, o0)
    BY <1>4, <1>11, ReplayedPrefix
  <1> HIDE DEF n, new
  <1> DEFINE X == Replay(acct, more, stored, new)
  <1>14. PICK anchorsX : Replayed(X, anchorsX, n + 1, acct, more, stored, new)
    BY <1>10, ReplayFollowsOrder
  <1> HIDE DEF X
  <1>15. Replayed(X, anchorsX, k, acct, more, stored, new)
    <2>1. n + 1 \in Nat /\ k \in 0..(n + 1)
      BY <1>11
    <2>2. QED
      BY <1>14, <2>1, ReplayedPrefix
  <1>16. SameSteps(payments, snap, o0, more, stored, new, k)
    <2>1. ASSUME NEW i \in 1..k
          PROVE  /\ o0[i] = new[i] /\ o0[i] \in Recorded
                 /\ payments[o0[i]] = more[o0[i]] /\ payments[o0[i]].date \in Days
                 /\ snap[o0[i]] = stored[o0[i]]
      <3>1. i \in 1..n
        BY <1>11
      <3>2. QED
        BY <1>1, <1>6, <1>11, <1>12, <3>1
    <2>2. QED
      BY <1>1, <1>8, <2>1 DEF SameSteps
  <1>17. SameResults(snap, anchors0, X, anchorsX, o0, k)
    BY <1>1, <1>2, <1>11, <1>13, <1>15, <1>16, ReplaysAgree
  <1>18. anchorsX[k] = anchor /\ AnchorDated(anchor)
    <2>1. anchors0[k] = anchorsX[k] /\ AnchorDated(anchors0[k])
      BY <1>11, <1>17 DEF SameResults
    <2>2. \A j \in 1..n : k < j => payments[o0[j]].method # "import"
      <3>1. SUFFICES ASSUME NEW j \in 1..n, k < j, payments[o0[j]].method = "import"
                     PROVE  FALSE
        OBVIOUS
      <3>2. ~(payments[o0[j]].date <= d) /\ payments[o0[j]].date < d
            /\ payments[o0[j]].date \in Nat
        BY <1>5, <1>6, <1>11, <3>1
      <3>3. QED
        BY <1>2, <3>2
    <2>3. \A i \in k..n : anchors0[i] = anchors0[k]
      BY <1>4, <1>11, <2>2, AnchorsUntouched DEF n
    <2>4. anchors0[n] = anchors0[k]
      BY <1>11, <2>3
    <2>5. QED
      BY <1>4, <2>1, <2>4 DEF n
  <1> DEFINE E == {new[j] : j \in 1..k}
             P == Restrict(more, E)
  <1>19. X[p] = ReplayNative(acct, more, p, E, anchor)
    <2>1. X[new[k + 1]] = ReplayNative(acct, more, new[k + 1],
                            {new[j] : j \in 1..((k + 1) - 1)}, anchorsX[(k + 1) - 1])
      BY <1>7, <1>11, <1>12, <1>14 DEF Replayed
    <2>2. (k + 1) - 1 = k
      BY <1>11
    <2>3. QED
      BY <1>12, <1>18, <2>1, <2>2
  <1>20. E \in SUBSET Recorded /\ \A q \in Recorded : payments[q].date < d => q \in E
    <2>1. \A j \in 1..k : j \in 1..n
      BY <1>11
    <2>2. E \subseteq Recorded
      BY <1>11, <1>12, <2>1
    <2>3. ASSUME NEW q \in Recorded, payments[q].date < d
          PROVE  q \in E
      <3>1. PICK i \in 1..n : o0[i] = q
        BY <1>11
      <3>2. payments[q].date <= d
        BY <1>2, <1>6, <2>3
      <3>3. i \in 1..k
        BY <1>11, <3>1, <3>2
      <3>4. QED
        BY <1>12, <3>1, <3>3
    <2>4. QED
      BY <2>2, <2>3
  <1> HIDE DEF E
  <1>21. Counted(more)
    <2>1. IsFiniteSet(DOMAIN more)
      BY <1>1, <1>2, <1>8, FS_AddElement DEF Counted
    <2>2. amount \in Int
      BY LedgerAssumption
    <2>3. QED
      BY <1>1, <1>2, <1>7, <1>8, <2>1, <2>2 DEF Counted
  <1>22. /\ Counted(P) /\ DOMAIN P = E
         /\ \A q \in E : P[q] = payments[q]
    <2>1. E \in SUBSET DOMAIN more
      BY <1>1, <1>20
    <2>2. Counted(P) /\ DOMAIN P = E /\ \A q \in E : P[q] = more[q]
      BY <1>21, <2>1, PartCounted
    <2>3. QED
      BY <1>1, <1>20, <2>2
  <1>23. X[p] = NativeSnapshot(acct, P, d, amount, anchor)
    BY <1>7, <1>19 DEF ReplayNative
  <1> HIDE DEF P
  <1>24. SameBefore(payments, P, d)
    BY <1>8, <1>20, <1>22 DEF SameBefore
  <1>25. NativeSnapshot(account, payments, d, amount, anchor)
           = NativeSnapshot(acct, P, d, amount, anchor)
    BY <1>1, <1>2, <1>18, <1>22, <1>24, NativeSnapshotLocal
  <1>26. stored[p] = X[p]
    BY <1>1, <1>23, <1>25
  <1>27. QED
    BY <1>10, <1>26 DEF X, more, stored, acct

(* The snapshot that add_payment stores, for a backdated payment too, is   *)
(* the one a recalculation of the resulting history would store, provided  *)
(* that the history was consistent and no import ties with another row.    *)
THEOREM LiveSnapshotAlwaysReplay == Spec => LiveSnapshotIsReplay
  <1> DEFINE Same == \A p \in Added :
               payments'[p].method # "import" /\ ~ImportTie(payments) /\ ConsistentBefore =>
                 \E order \in Chronological(payments') :
                   snap'[p] = Replay(account', payments', snap', order)[p]
  <1>1. IInv /\ [Next]_vars => [Same]_vars
    <2>1. SUFFICES ASSUME IInv, [Next]_vars, NEW p \in Added,
                          payments'[p].method # "import", ~ImportTie(payments),
                          ConsistentBefore
                   PROVE  \E order \in Chronological(payments') :
                            snap'[p] = Replay(account', payments', snap', order)[p]
      OBVIOUS
    <2>2. AddSome
      BY <2>1, AddedByOthers
    <2>3. PICK q \in Ids \ Recorded, a \in Amounts, d \in Days,
               m \in {"auto", "manual"}, order \in Chronological(payments) :
            AddPayment(q, a, d, m, order)
      BY <2>2 DEF AddSome
    <2>4. q \notin Recorded /\ Added = {q}
      BY <2>3, AddedByPayment
    <2>5. p = q
      BY <2>1, <2>4
    <2>6. QED
      BY <2>1, <2>3, <2>5, LiveIsReplay DEF IInv
  <1>2. QED
    BY <1>1, InvariantAlways, PTL DEF Spec, LiveSnapshotIsReplay

-----------------------------------------------------------------------------
(* A payment at the end of a history. *)

LEMMA AnchorsDated ==
  ASSUME NEW acct, acct.start \in Nat, NEW pays, \A p \in DOMAIN pays : pays[p].date \in Days,
         NEW stored, NEW order, Ordered(pays, order), NEW after, NEW anchors,
         Replayed(after, anchors, Len(order), acct, pays, stored, order)
  PROVE  \A i \in 0..Len(order) : AnchorDated(anchors[i])
  <1> DEFINE n == Len(order)
  <1>1. SameSteps(pays, stored, order, pays, stored, order, n) /\ n \in Nat
    BY DEF SameSteps, Ordered
  <1>2. SameTerms(acct, acct)
    BY DEF SameTerms
  <1>3. SameResults(after, anchors, after, anchors, order, n)
    BY <1>1, <1>2, ReplaysAgree
  <1>4. QED
    BY <1>3 DEF SameResults

(* A replay's first steps are those of the replay of a longer history that *)
(* starts with the same rows.                                              *)
LEMMA ReplayedSame ==
  ASSUME NEW acct1, NEW acct2, SameTerms(acct1, acct2), acct1.start \in Nat,
         NEW pays1, NEW after1, NEW order1, NEW pays2, NEW after2, NEW order2, NEW n \in Nat,
         SameSteps(pays1, after1, order1, pays2, after2, order2, n),
         \A i \in 1..n : after2[order1[i]] = after1[order1[i]],
         NEW anchors1, NEW anchors2,
         \A i \in 0..n : anchors2[i] = anchors1[i] /\ AnchorDated(anchors1[i]),
         Replayed(after1, anchors1, n, acct1, pays1, after1, order1)
  PROVE  Replayed(after2, anchors2, n, acct2, pays2, after2, order2)
  <1>1. anchors2[0] = NoAnchor
    BY DEF Replayed
  <1>2. ASSUME NEW i \in 1..n
        PROVE  IF pays2[order2[i]].method = "import"
               THEN /\ after2[order2[i]] = ReplayImport(acct2, pays2, after2, order2[i],
                         IF i = 1 THEN acct2.borrow ELSE after2[order2[i - 1]].after)
                    /\ anchors2[i] = AnchorAt(pays2[order2[i]].date, after2[order2[i]].after)
               ELSE /\ after2[order2[i]] = ReplayNative(acct2, pays2, order2[i],
                         {order2[j] : j \in 1..(i - 1)}, anchors2[i - 1])
                    /\ anchors2[i] = anchors2[i - 1]
    <2> DEFINE p == order1[i]
               earlier == {order1[j] : j \in 1..(i - 1)}
               anchor == anchors1[i - 1]
               old1 == IF i = 1 THEN acct1.borrow ELSE after1[order1[i - 1]].after
               old2 == IF i = 1 THEN acct2.borrow ELSE after2[order2[i - 1]].after
    <2>1. /\ order2[i] = p /\ pays2[p] = pays1[p] /\ pays1[p].date \in Days
          /\ after2[p] = after1[p]
      BY DEF SameSteps
    <2>2. i \in 0..n /\ i - 1 \in 0..n /\ (i # 1 => i - 1 \in 1..n)
      OBVIOUS
    <2>3. \A j \in 1..(i - 1) : order1[j] = order2[j] /\ pays1[order1[j]] = pays2[order1[j]]
      BY DEF SameSteps
    <2>4. earlier = {order2[j] : j \in 1..(i - 1)}
      BY <2>3
    <2>5. Restrict(pays1, earlier) = Restrict(pays2, earlier)
      BY <2>3 DEF Restrict
    <2>6. anchors2[i - 1] = anchor /\ anchors2[i] = anchors1[i] /\ AnchorDated(anchor)
      BY <2>2
    <2>7. pays1[p].date \in Nat
      BY <2>1, LedgerAssumption DEF Days
    <2>8. old1 = old2
      <3>1. i # 1 => order2[i - 1] = order1[i - 1]
                     /\ after2[order1[i - 1]] = after1[order1[i - 1]]
        BY <2>2 DEF SameSteps
      <3>2. QED
        BY <3>1 DEF SameTerms
    <2>9. CASE pays1[p].method = "import"
      <3>1. /\ after1[p] = ReplayImport(acct1, pays1, after1, p, old1)
            /\ anchors1[i] = AnchorAt(pays1[p].date, after1[p].after)
        BY <2>9 DEF Replayed
      <3> HIDE DEF p, old1, old2
      <3>2. after2[p] = ReplayImport(acct2, pays2, after2, p, old2)
        BY <2>1, <2>8, <3>1 DEF ReplayImport
      <3>3. anchors2[i] = AnchorAt(pays2[p].date, after2[p].after)
        BY <2>1, <2>6, <3>1
      <3>4. QED
        BY <2>1, <2>9, <3>2, <3>3 DEF old2
    <2>10. CASE pays1[p].method # "import"
      <3>1. /\ after1[p] = ReplayNative(acct1, pays1, p, earlier, anchor)
            /\ anchors1[i] = anchor
        BY <2>10 DEF Replayed
      <3> HIDE DEF p, earlier, anchor, old1, old2
      <3> DEFINE P == Restrict(pays1, earlier)
      <3>2. after1[p] = NativeSnapshot(acct1, P, pays1[p].date, pays1[p].amount, anchor)
        BY <3>1 DEF ReplayNative
      <3>3. ReplayNative(acct2, pays2, p, earlier, anchor)
              = NativeSnapshot(acct2, P, pays1[p].date, pays1[p].amount, anchor)
        BY <2>1, <2>5 DEF ReplayNative
      <3> HIDE DEF P
      <3>4. after2[p] = ReplayNative(acct2, pays2, p, earlier, anchor)
        BY <2>1, <2>6, <2>7, <3>2, <3>3, NativeSnapshotTerms
      <3>5. after2[order2[i]] = ReplayNative(acct2, pays2, order2[i],
                                  {order2[j] : j \in 1..(i - 1)}, anchors2[i - 1])
        BY <2>1, <2>4, <2>6, <3>4
      <3>6. anchors2[i] = anchors2[i - 1]
        BY <2>6, <3>1
      <3>7. QED
        BY <2>1, <2>10, <3>5, <3>6
    <2>11. QED
      BY <2>9, <2>10
  <1>3. QED
    BY <1>1, <1>2 DEF Replayed

(* What a native payment gets does not depend on the rows of its own day   *)
(* that came before it.                                                    *)
LEMMA SameDayReplay ==
  ASSUME NEW acct, acct.start \in Nat, NEW pays, Counted(pays),
         NEW E1 \in SUBSET DOMAIN pays, NEW E2 \in SUBSET DOMAIN pays,
         NEW p \in DOMAIN pays, NEW anchor, AnchorDated(anchor),
         \A q \in DOMAIN pays : pays[q].date < pays[p].date => (q \in E1 <=> q \in E2)
  PROVE  ReplayNative(acct, pays, p, E1, anchor) = ReplayNative(acct, pays, p, E2, anchor)
  <1> DEFINE P1 == Restrict(pays, E1)
             P2 == Restrict(pays, E2)
             d == pays[p].date
  <1>1. /\ Counted(P1) /\ DOMAIN P1 = E1 /\ \A q \in E1 : P1[q] = pays[q]
        /\ Counted(P2) /\ DOMAIN P2 = E2 /\ \A q \in E2 : P2[q] = pays[q]
    BY PartCounted
  <1>2. d \in Nat /\ SameTerms(acct, acct)
    BY DEF Counted, SameTerms
  <1> HIDE DEF P1, P2, d
  <1>3. SameBefore(P1, P2, d)
    BY <1>1 DEF SameBefore, d
  <1>4. NativeSnapshot(acct, P1, d, pays[p].amount, anchor)
          = NativeSnapshot(acct, P2, d, pays[p].amount, anchor)
    BY <1>1, <1>2, <1>3, NativeSnapshotLocal
  <1>5. QED
    BY <1>4 DEF ReplayNative, P1, P2, d

LEMMA AddKeepsConsistent ==
  ASSUME HistoryTyped, HistoryTyped', ConsistentBefore, ~ImportTie(payments),
         NEW p \in Ids \ Recorded, NEW amount \in Amounts, NEW d \in Days,
         NEW method \in {"auto", "manual"}, NEW order \in Chronological(payments),
         AddPayment(p, amount, d, method, order),
         \A q \in Recorded : payments[q].date < d
  PROVE  ConsistentAfter
  <1> DEFINE anchor == ledger_anchor(payments, snap, order)
             more == payments'
             stored == snap'
             acct == account'
  <1>1. /\ DOMAIN more = Recorded \union {p}
        /\ \A q \in Recorded : more[q] = payments[q] /\ stored[q] = snap[q]
        /\ more[p] = [date |-> d, amount |-> amount, method |-> method]
        /\ stored = [q \in Recorded \union {p} |-> stored[q]]
        /\ stored[p] = NativeSnapshot(account, payments, d, amount, anchor)
        /\ SameTerms(account, acct)
    <2>1. PaymentAdded(p, amount, d, method, anchor)
      BY AddedRow
    <2> HIDE DEF anchor
    <2>2. QED
      BY <2>1 DEF PaymentAdded
  <1>2. Counted(payments) /\ account.start \in Nat /\ d \in Nat /\ acct.start \in Nat
    BY <1>1, HistoryCounted, LedgerAssumption DEF Terms, Days, SameTerms
  <1>3. \A q \in DOMAIN more : more[q].date \in Days
    BY DEF HistoryTyped, Payment, Recorded
  <1>4. PICK o0, anchors0 : StoredInOrder(o0, anchors0)
    BY ConsistentSteps
  <1> DEFINE n == Len(o0)
             new == PutAfter(o0, n, p)
             anchors == [i \in 0..(n + 1) |-> IF i <= n THEN anchors0[i] ELSE anchors0[n]]
  <1>5. /\ o0 \in Chronological(payments) /\ Ordered(payments, o0)
        /\ Replayed(snap, anchors0, n, account, payments, snap, o0)
        /\ anchors0[n] = anchor
    BY <1>4, AnchorDetermined DEF StoredInOrder
  <1> HIDE DEF anchor, more, stored, acct
  <1>6. more[p].date = d /\ more[p].amount = amount /\ more[p].method # "import"
    BY <1>1
  <1>7. DOMAIN payments = Recorded
        /\ \A q \in Recorded : payments[q].date \in Days /\ payments[q].date \in Nat
    BY LedgerAssumption DEF Recorded, HistoryTyped, Payment, Days
  <1>8. /\ n \in Nat /\ n \in 0..n /\ n + 1 \in Nat
        /\ \A i \in 1..n : o0[i] \in Recorded
        /\ \A q \in Recorded : \E i \in 1..n : o0[i] = q
    BY <1>5, <1>7 DEF Ordered
  <1>9. UpToDay(payments, o0, d, n)
    <2>1. ASSUME NEW i \in 1..n
          PROVE  i <= n <=> payments[o0[i]].date <= d
      <3>1. payments[o0[i]].date < d /\ payments[o0[i]].date \in Nat /\ i <= n
        BY <1>7, <1>8
      <3>2. QED
        BY <1>2, <3>1
    <2>2. QED
      BY <1>8, <2>1 DEF UpToDay
  <1>10. Ordered(more, new) /\ new \in Chronological(more) /\ Len(new) = n + 1
    <2>1. PICK k : k = n
      OBVIOUS
    <2>2. UpToDay(payments, o0, more[p].date, k) /\ more[p].date \in Nat
      BY <1>2, <1>6, <1>9, <2>1
    <2>3. RowAdded(payments, more, p)
      BY <1>1, <1>7, <2>2 DEF RowAdded
    <2> HIDE DEF new
    <2>4. PutIn(more, o0, k, p)
      BY <1>2, <1>5, <2>2, <2>3, PutAfterOrdered
    <2>5. QED
      BY <2>1, <2>4 DEF new, PutIn
  <1>11. new[n + 1] = p /\ \A i \in 1..n : new[i] = o0[i]
    BY <1>8 DEF PutAfter
  <1>12. \A i \in 0..n : AnchorDated(anchors0[i])
    BY <1>2, <1>5, <1>7, AnchorsDated
  <1>13. /\ \A i \in 0..n : anchors[i] = anchors0[i]
         /\ anchors[n + 1] = anchors[n]
    BY <1>8
  <1> HIDE DEF n, new, anchors
  <1>14. SameSteps(payments, snap, o0, more, stored, new, n)
    BY <1>1, <1>7, <1>8, <1>11 DEF SameSteps
  <1>15. \A i \in 1..n : stored[o0[i]] = snap[o0[i]]
    BY <1>1, <1>8
  <1>16. \A i \in 0..n : anchors[i] = anchors0[i] /\ AnchorDated(anchors0[i])
    BY <1>12, <1>13
  <1>17. Replayed(stored, anchors, n, acct, more, stored, new)
    BY <1>1, <1>2, <1>5, <1>8, <1>14, <1>15, <1>16, ReplayedSame
  <1> DEFINE E == {new[j] : j \in 1..n}
  <1>18. stored[p] = ReplayNative(acct, more, p, E, anchors[n])
    <2>1. E = Recorded
      BY <1>8, <1>11
    <2>2. Restrict(more, Recorded) = payments
      <3>1. payments = [q \in Recorded |-> payments[q]]
        BY DEF HistoryTyped
      <3>2. QED
        BY <1>1, <3>1 DEF Restrict
    <2>3. anchors[n] = anchor /\ AnchorDated(anchor)
      BY <1>5, <1>8, <1>16
    <2> HIDE DEF E
    <2>4. ReplayNative(acct, more, p, E, anchors[n])
            = NativeSnapshot(acct, payments, d, amount, anchor)
      BY <1>6, <2>1, <2>2, <2>3 DEF ReplayNative
    <2>5. NativeSnapshot(account, payments, d, amount, anchor)
            = NativeSnapshot(acct, payments, d, amount, anchor)
      BY <1>1, <1>2, <2>3, NativeSnapshotTerms
    <2>6. QED
      BY <1>1, <2>4, <2>5
  <1>19. Replayed(stored, anchors, n + 1, acct, more, stored, new)
    <2>1. ASSUME NEW i \in 1..(n + 1), i \notin 1..n
          PROVE  i = n + 1 /\ i - 1 = n
      BY <1>8, <2>1
    <2>2. ASSUME NEW i \in 1..(n + 1)
          PROVE  IF more[new[i]].method = "import"
                 THEN /\ stored[new[i]] = ReplayImport(acct, more, stored, new[i],
                           IF i = 1 THEN acct.borrow ELSE stored[new[i - 1]].after)
                      /\ anchors[i] = AnchorAt(more[new[i]].date, stored[new[i]].after)
                 ELSE /\ stored[new[i]] = ReplayNative(acct, more, new[i],
                           {new[j] : j \in 1..(i - 1)}, anchors[i - 1])
                      /\ anchors[i] = anchors[i - 1]
      <3>1. CASE i \in 1..n
        BY <1>17, <3>1 DEF Replayed
      <3>2. CASE i \notin 1..n
        <4>1. i = n + 1 /\ i - 1 = n /\ new[i] = p
          BY <1>11, <2>1, <3>2
        <4>2. QED
          BY <1>6, <1>13, <1>18, <4>1
      <3>3. QED
        BY <3>1, <3>2
    <2>3. anchors[0] = NoAnchor
      BY <1>17 DEF Replayed
    <2>4. QED
      BY <2>2, <2>3 DEF Replayed
  <1>20. stored = [q \in DOMAIN more |-> stored[q]]
    BY <1>1
  <1>21. stored = Replay(acct, more, stored, new)
    BY <1>2, <1>3, <1>10, <1>19, <1>20, ReplayUnique DEF more
  <1>22. QED
    BY <1>10, <1>21 DEF ConsistentAfter, ConsistentIn, more, stored, acct

(* Some order that the snapshots follow ends with row p. *)
EndsWith(p) == \E order, anchors : StoredInOrder(order, anchors) /\ order[Len(order)] = p

(* The rows of the last day may be replayed in any order, when none of     *)
(* them is an import.                                                      *)
LEMMA SwapLast ==
  ASSUME HistoryTyped, ~ImportTie(payments), NEW o0, NEW anchors0, StoredInOrder(o0, anchors0),
         NEW p \in Recorded, \A q \in Recorded : payments[q].date <= payments[p].date
  PROVE  EndsWith(p)
  <1> DEFINE n == Len(o0)
             d == payments[p].date
  <1>1. /\ Counted(payments) /\ account.start \in Nat
        /\ \A q \in Recorded : payments[q].date \in Nat /\ payments[q].date \in Days
        /\ DOMAIN payments = Recorded
    BY HistoryCounted, LedgerAssumption DEF Terms, Days, Recorded, HistoryTyped, Payment
  <1>2. /\ Ordered(payments, o0)
        /\ Replayed(snap, anchors0, n, account, payments, snap, o0)
    BY DEF StoredInOrder
  <1>3. /\ n \in Nat /\ DOMAIN o0 = 1..n
        /\ \A i \in 1..n : o0[i] \in Recorded
        /\ \A q \in Recorded : \E i \in 1..n : o0[i] = q
        /\ \A i, j \in 1..n : o0[i] = o0[j] => i = j
        /\ \A i, j \in 1..n : i < j => payments[o0[i]].date <= payments[o0[j]].date
    BY <1>1, <1>2 DEF Ordered
  <1> HIDE DEF n, d
  <1>4. PICK k \in 1..n : o0[k] = p
    BY <1>3
  <1>5. d \in Nat /\ payments[o0[k]].date = d
    BY <1>1, <1>4 DEF d
  <1>6. CASE k = n
    BY <1>4, <1>6 DEF EndsWith, n
  <1>7. CASE k # n
    <2> DEFINE swap(i) == IF i = k THEN n ELSE IF i = n THEN k ELSE i
               o2 == [i \in 1..n |-> o0[swap(i)]]
    <2>1. k \in 1..n /\ n \in 1..n /\ k < n /\ k - 1 \in 0..n
      BY <1>3, <1>4, <1>7
    <2>2. ASSUME NEW j \in k..n
          PROVE  payments[o0[j]].date = d /\ payments[o0[j]].method # "import"
      <3>1. j \in 1..n
        BY <2>1
      <3>2. payments[o0[j]].date \in Nat /\ payments[o0[j]].date <= d
        BY <1>1, <1>3, <3>1 DEF d
      <3>3. j = k \/ payments[o0[k]].date <= payments[o0[j]].date
        BY <1>3, <2>1, <3>1
      <3>4. payments[o0[j]].date = d
        BY <1>5, <3>2, <3>3
      <3>5. payments[o0[k]].date <= payments[o0[n]].date /\ payments[o0[n]].date \in Nat
            /\ payments[o0[n]].date <= d
        BY <1>1, <1>3, <2>1 DEF d
      <3>6. payments[o0[n]].date = d
        BY <1>5, <3>5
      <3>7. o0[k] # o0[j] \/ o0[n] # o0[j]
        BY <1>3, <2>1
      <3>8. o0[j] \in Recorded /\ o0[k] \in Recorded /\ o0[n] \in Recorded
        BY <1>3, <2>1, <3>1
      <3>9. QED
        BY <1>1, <1>5, <3>4, <3>6, <3>7, <3>8 DEF ImportTie
    <2>3. /\ Len(o2) = n /\ DOMAIN o2 = 1..n
          /\ o2 = [i \in 1..Len(o2) |-> o2[i]]
          /\ \A i \in 1..n : swap(i) \in 1..n /\ o2[i] = o0[swap(i)] /\ swap(swap(i)) = i
          /\ \A i \in 1..(k - 1) : i \in 1..n /\ o2[i] = o0[i]
          /\ \A i \in k..n : swap(i) \in k..n
          /\ o2[n] = p
      BY <1>3, <1>4, <2>1
    <2>4. ASSUME NEW i \in 1..n
          PROVE  payments[o2[i]].date = payments[o0[i]].date /\ o2[i] \in Recorded
      <3>1. CASE i < k
        <4>1. i \in 1..(k - 1)
          BY <3>1, <2>1
        <4>2. QED
          BY <1>3, <2>3, <4>1
      <3>2. CASE ~(i < k)
        <4>1. i \in k..n /\ swap(i) \in k..n /\ swap(i) \in 1..n /\ o2[i] = o0[swap(i)]
          BY <2>1, <2>3, <3>2
        <4>2. QED
          BY <1>3, <2>2, <4>1
      <3>3. QED
        BY <3>1, <3>2
    <2> HIDE DEF swap, o2
    <2>5. Ordered(payments, o2)
      <3>1. \A q \in Recorded : \E i \in 1..n : o2[i] = q
        <4>1. SUFFICES ASSUME NEW q \in Recorded PROVE \E i \in 1..n : o2[i] = q
          OBVIOUS
        <4>2. PICK j \in 1..n : o0[j] = q
          BY <1>3
        <4>3. swap(j) \in 1..n /\ o2[swap(j)] = o0[swap(swap(j))] /\ swap(swap(j)) = j
          BY <2>3
        <4>4. QED
          BY <4>2, <4>3
      <3>2. ASSUME NEW i \in 1..n, NEW j \in 1..n, o2[i] = o2[j]
            PROVE  i = j
        <4>1. swap(i) = swap(j) /\ swap(swap(i)) = i /\ swap(swap(j)) = j
          BY <1>3, <2>3, <3>2
        <4>2. QED
          BY <4>1
      <3>3. \A i, j \in 1..n : i < j => payments[o2[i]].date <= payments[o2[j]].date
        BY <1>3, <2>4
      <3>4. QED
        BY <1>1, <1>3, <2>3, <2>4, <3>1, <3>2, <3>3 DEF Ordered
    <2>6. o2 \in Chronological(payments)
      BY <2>3, <2>5, OrderIsChronological
    <2>7. \A i \in (k - 1)..n : anchors0[i] = anchors0[k - 1]
      <3>1. PICK m \in 0..n : m = k - 1
        BY <2>1
      <3>2. \A j \in 1..n : m < j => payments[o0[j]].method # "import"
        <4>1. \A j \in 1..n : m < j => j \in k..n
          BY <2>1, <3>1
        <4>2. QED
          BY <2>2, <4>1
      <3>3. \A i \in m..n : anchors0[i] = anchors0[m]
        BY <1>2, <1>3, <3>2, AnchorsUntouched
      <3>4. QED
        BY <3>1, <3>3
    <2>8. AnchorDated(anchors0[k - 1])
      BY <1>1, <1>2, <2>1, AnchorsDated DEF n
    <2>9. ASSUME NEW i \in 1..n, i < k
          PROVE  IF payments[o2[i]].method = "import"
                 THEN /\ snap[o2[i]] = ReplayImport(account, payments, snap, o2[i],
                           IF i = 1 THEN account.borrow ELSE snap[o2[i - 1]].after)
                      /\ anchors0[i] = AnchorAt(payments[o2[i]].date, snap[o2[i]].after)
                 ELSE /\ snap[o2[i]] = ReplayNative(account, payments, o2[i],
                           {o2[j] : j \in 1..(i - 1)}, anchors0[i - 1])
                      /\ anchors0[i] = anchors0[i - 1]
      <3>1. i \in 1..(k - 1) /\ (i # 1 => i - 1 \in 1..(k - 1))
        BY <2>1, <2>9
      <3>2. o2[i] = o0[i] /\ (i # 1 => o2[i - 1] = o0[i - 1])
        BY <2>3, <3>1
      <3>3. \A j \in 1..(i - 1) : j \in 1..(k - 1)
        BY <2>1, <2>9
      <3>4. \A j \in 1..(i - 1) : o2[j] = o0[j]
        BY <2>3, <3>3
      <3>5. {o2[j] : j \in 1..(i - 1)} = {o0[j] : j \in 1..(i - 1)}
        BY <3>4
      <3>6. IF payments[o0[i]].method = "import"
            THEN /\ snap[o0[i]] = ReplayImport(account, payments, snap, o0[i],
                      IF i = 1 THEN account.borrow ELSE snap[o0[i - 1]].after)
                 /\ anchors0[i] = AnchorAt(payments[o0[i]].date, snap[o0[i]].after)
            ELSE /\ snap[o0[i]] = ReplayNative(account, payments, o0[i],
                      {o0[j] : j \in 1..(i - 1)}, anchors0[i - 1])
                 /\ anchors0[i] = anchors0[i - 1]
        BY <1>2 DEF Replayed
      <3>7. (IF i = 1 THEN account.borrow ELSE snap[o2[i - 1]].after)
              = (IF i = 1 THEN account.borrow ELSE snap[o0[i - 1]].after)
        BY <3>2
      <3>8. QED
        BY <3>2, <3>5, <3>6, <3>7
    <2>10. ASSUME NEW i \in 1..n, ~(i < k)
           PROVE  /\ payments[o2[i]].method # "import"
                  /\ snap[o2[i]] = ReplayNative(account, payments, o2[i],
                       {o2[j] : j \in 1..(i - 1)}, anchors0[i - 1])
                  /\ anchors0[i] = anchors0[i - 1]
      <3> DEFINE m == swap(i)
                 q == o2[i]
                 E1 == {o0[j] : j \in 1..(m - 1)}
                 E2 == {o2[j] : j \in 1..(i - 1)}
      <3>1. i \in k..n /\ m \in k..n /\ m \in 1..n /\ o2[i] = o0[m]
        BY <2>1, <2>3, <2>10
      <3>2. payments[q].date = d /\ payments[q].method # "import" /\ q \in Recorded
        BY <1>3, <2>2, <3>1
      <3>3. /\ anchors0[i] = anchors0[k - 1] /\ anchors0[i - 1] = anchors0[k - 1]
            /\ anchors0[m - 1] = anchors0[k - 1]
        <4>1. i \in (k - 1)..n /\ i - 1 \in (k - 1)..n /\ m - 1 \in (k - 1)..n
          BY <2>1, <3>1
        <4>2. QED
          BY <2>7, <4>1
      <3>4. snap[o0[m]] = ReplayNative(account, payments, o0[m], E1, anchors0[m - 1])
        BY <1>2, <3>1, <3>2 DEF Replayed
      <3>5. E1 \in SUBSET Recorded /\ E2 \in SUBSET Recorded
        <4>1. \A j \in 1..(m - 1) : j \in 1..n
          BY <3>1, <2>1
        <4>2. \A j \in 1..(i - 1) : j \in 1..n
          BY <1>3
        <4>3. QED
          BY <1>3, <2>4, <4>1, <4>2
      <3>6. ASSUME NEW r \in Recorded, payments[r].date < d
            PROVE  r \in E1 /\ r \in E2
        <4>1. PICK j \in 1..n : o0[j] = r
          BY <1>3
        <4>2. j < k
          <5>1. SUFFICES ASSUME ~(j < k) PROVE FALSE
            OBVIOUS
          <5>2. j \in k..n
            BY <2>1, <5>1
          <5>3. QED
            BY <1>5, <2>2, <3>6, <4>1, <5>2
        <4>3. j \in 1..(k - 1) /\ j \in 1..(m - 1) /\ j \in 1..(i - 1)
          BY <2>1, <3>1, <4>2
        <4>4. o2[j] = r
          BY <2>3, <4>1, <4>3
        <4>5. QED
          BY <4>1, <4>3, <4>4
      <3> HIDE DEF m, q, E1, E2
      <3>7. \A r \in DOMAIN payments : payments[r].date < payments[q].date
              => (r \in E1 <=> r \in E2)
        BY <1>1, <3>2, <3>6
      <3>8. ReplayNative(account, payments, q, E1, anchors0[k - 1])
              = ReplayNative(account, payments, q, E2, anchors0[k - 1])
        <4>1. E1 \in SUBSET DOMAIN payments /\ E2 \in SUBSET DOMAIN payments
              /\ q \in DOMAIN payments
          BY <1>1, <3>2, <3>5
        <4>2. QED
          BY <1>1, <2>8, <3>7, <4>1, SameDayReplay
      <3>9. snap[q] = ReplayNative(account, payments, q, E2, anchors0[i - 1])
        BY <3>1, <3>3, <3>4, <3>8 DEF q
      <3>10. anchors0[i] = anchors0[i - 1]
        BY <3>3
      <3>11. QED
        BY <3>2, <3>9, <3>10 DEF q, E2
    <2>11. Replayed(snap, anchors0, n, account, payments, snap, o2)
      <3>1. anchors0[0] = NoAnchor
        BY <1>2 DEF Replayed
      <3>2. QED
        BY <2>9, <2>10, <3>1 DEF Replayed
    <2>12. anchors0[n] = ledger_anchor(payments, snap, o2)
      BY <2>3, <2>5, <2>11, LastAnchorOfReplay
    <2>13. StoredInOrder(o2, anchors0)
      BY <2>3, <2>5, <2>6, <2>11, <2>12 DEF StoredInOrder
    <2>14. QED
      BY <2>3, <2>13 DEF EndsWith
  <1>8. QED
    BY <1>6, <1>7

-----------------------------------------------------------------------------
(* Imported rows at the end of a history. *)

(* The stored history is chronologically replayed up to this date and      *)
(* balance.                                                                *)
EndsAt(order, anchors, balance, last_date) ==
  /\ StoredInOrder(order, anchors)
  /\ balance = IF Len(order) = 0 THEN account.borrow ELSE snap[order[Len(order)]].after
  /\ \A q \in Recorded : payments[q].date <= last_date

LEMMA HistoryEndsThere ==
  ASSUME HistoryTyped, ConsistentBefore, ~ImportTie(payments),
         NEW order \in Chronological(payments)
  PROVE  \E o, anchors :
           EndsAt(o, anchors, HistoryEnd(order).balance, HistoryEnd(order).date)
  <1>1. PICK o0, anchors0 : StoredInOrder(o0, anchors0)
    BY ConsistentSteps
  <1>2. Ordered(payments, o0) /\ DOMAIN payments = Recorded
    BY <1>1 DEF StoredInOrder, Recorded
  <1>3. CASE Recorded = {}
    <2>1. order = <<>>
      <3>1. order \in [1..0 -> {}]
        BY <1>3, FS_EmptySet DEF Chronological, Bijection, Injection, Recorded
      <3>2. QED
        BY <3>1
    <2>2. Len(o0) = 0
      BY <1>2, <1>3 DEF Ordered
    <2>3. HistoryEnd(order).balance = account.borrow
      BY <2>1 DEF HistoryEnd, Disbursement
    <2>4. EndsAt(o0, anchors0, HistoryEnd(order).balance, HistoryEnd(order).date)
      BY <1>1, <1>3, <2>2, <2>3 DEF EndsAt
    <2>5. QED
      BY <2>4
  <1>4. CASE Recorded # {}
    <2> DEFINE p == order[Len(order)]
    <2>1. /\ Len(order) \in DOMAIN order /\ order # <<>>
          /\ DOMAIN order = 1..Len(order)
          /\ \A i \in DOMAIN order : order[i] \in Recorded
          /\ \A q \in Recorded : \E i \in DOMAIN order : order[i] = q
          /\ \A i, j \in DOMAIN order :
               i <= j => payments[order[i]].date <= payments[order[j]].date
      BY <1>4, OrderOfRows
    <2>2. p \in Recorded /\ \A q \in Recorded : payments[q].date <= payments[p].date
      <3>1. ASSUME NEW q \in Recorded PROVE payments[q].date <= payments[p].date
        <4>1. PICK i \in DOMAIN order : order[i] = q
          BY <2>1
        <4>2. i <= Len(order)
          BY <2>1
        <4>3. QED
          BY <2>1, <4>1, <4>2
      <3>2. QED
        BY <2>1, <3>1
    <2>3. HistoryEnd(order).balance = snap[p].after
          /\ HistoryEnd(order).date = payments[p].date
      BY <2>1 DEF HistoryEnd
    <2> HIDE DEF p
    <2>4. EndsWith(p)
      BY <1>1, <2>2, SwapLast
    <2>5. PICK o, anchors : StoredInOrder(o, anchors) /\ o[Len(o)] = p
      BY <2>4 DEF EndsWith
    <2>6. Len(o) # 0
      <3>1. Ordered(payments, o)
        BY <2>5 DEF StoredInOrder
      <3>2. PICK i \in 1..Len(o) : o[i] = p
        BY <1>2, <2>2, <3>1 DEF Ordered
      <3>3. Len(o) \in Nat
        BY <3>1 DEF Ordered
      <3>4. QED
        BY <3>2, <3>3
    <2>7. EndsAt(o, anchors, HistoryEnd(order).balance, HistoryEnd(order).date)
      BY <2>2, <2>3, <2>5, <2>6 DEF EndsAt
    <2>8. QED
      BY <2>7
  <1>5. QED
    BY <1>3, <1>4

(* The rows of a file that are not refused are its last ones. *)
RowsFrom(file, rows, t) ==
  /\ t \in 0..(Len(file) - 1)
  /\ rows = (t + 1)..Len(file)

LEMMA AcceptedRowsAreLast ==
  ASSUME NEW file \in ImportFiles, NEW last_date \in Nat, Accepted(file, last_date) # {}
  PROVE  \E t : RowsFrom(file, Accepted(file, last_date), t)
  <1> DEFINE N == Len(file)
             rows == Accepted(file, last_date)
  <1>1. N \in Nat /\ DOMAIN file = 1..N /\ \A i \in 1..N : file[i].date \in Nat
    <2>1. file \in Seq(ImportRows)
      BY LedgerAssumption
    <2>2. \A i \in 1..N : file[i] \in ImportRows
      BY <2>1
    <2>3. \A r \in ImportRows : r.date \in Nat
      BY LedgerAssumption DEF ImportRows, Days
    <2>4. QED
      BY <2>1, <2>2, <2>3
  <1>2. \A i, j \in 1..N : i < j => file[i].date <= file[j].date
    BY <1>1, LedgerAssumption
  <1>3. rows = {i \in 1..N : file[i].date >= last_date}
    BY <1>1 DEF Accepted
  <1>4. rows # {}
    OBVIOUS
  <1> HIDE DEF rows, N
  <1>5. PICK f \in rows : \A i \in rows : f <= i
    <2>1. rows \in SUBSET Nat
      BY <1>3
    <2>2. QED
      BY <1>4, <2>1, LeastExists
  <1>6. f \in 1..N /\ file[f].date >= last_date
    BY <1>3, <1>5
  <1>7. ASSUME NEW i \in f..N PROVE i \in rows
    <2>1. i \in 1..N /\ (i = f \/ f < i)
      BY <1>1, <1>6
    <2>2. i = f \/ file[f].date <= file[i].date
      BY <1>2, <1>6, <2>1
    <2>3. file[i].date >= last_date
      BY <1>1, <1>6, <2>1, <2>2
    <2>4. QED
      BY <1>3, <2>1, <2>3
  <1>8. rows = f..N
    <2>1. \A i \in rows : i \in f..N
      BY <1>1, <1>3, <1>5, <1>6
    <2>2. QED
      BY <1>7, <2>1
  <1>9. RowsFrom(file, rows, f - 1)
    <2>1. f - 1 \in 0..(N - 1) /\ (f - 1) + 1 = f
      BY <1>1, <1>6
    <2>2. QED
      BY <1>8, <2>1 DEF RowsFrom, N
  <1>10. QED
    BY <1>9 DEF rows

(* Each imported row starts from the balance the row before it ended with. *)
ChainedFrom(file, after, t, balance) ==
  /\ after[t] = balance
  /\ \A j \in (t + 1)..Len(file) :
       after[j] = Snapshot(after[j - 1], file[j].interest, file[j].amount).after

LEMMA RowsChained ==
  ASSUME NEW file \in Seq(ImportRows), NEW rows, NEW t, RowsFrom(file, rows, t),
         NEW balance \in Int
  PROVE  ChainedFrom(file, RunningAfter(file, rows, balance), t, balance)
  <1> DEFINE after == RunningAfter(file, rows, balance)
             N == Len(file)
             Bad == {i \in 0..t : after[i] # balance}
  <1>1. RunningBalances(after, file, rows, balance) /\ N \in Nat
    BY RunningAfterRows
  <1>2. \A i \in 0..N : after[i] \in Int
    BY RunningTyped
  <1>3. t \in 0..N /\ rows = (t + 1)..N
    BY <1>1 DEF RowsFrom
  <1>4. \A j \in 1..N : file[j].interest \in Int /\ file[j].amount \in Int
    <2>1. \A j \in 1..N : file[j] \in ImportRows
      OBVIOUS
    <2>2. \A r \in ImportRows : r.interest \in Int /\ r.amount \in Int
      BY DEF ImportRows
    <2>3. QED
      BY <2>1, <2>2
  <1>5. after[0] = balance
        /\ \A i \in 1..N : after[i] = after[i - 1]
             + IF i \in rows THEN file[i].interest - file[i].amount ELSE 0
    BY <1>1 DEF RunningBalances
  <1> HIDE DEF after, N
  <1>6. Bad = {}
    <2>1. SUFFICES ASSUME Bad # {} PROVE FALSE
      OBVIOUS
    <2>2. PICK i \in Bad : \A k \in Bad : i <= k
      <3>1. Bad \in SUBSET Nat
        BY <1>3
      <3> HIDE DEF Bad
      <3>2. QED
        BY <2>1, <3>1, LeastExists
    <2>3. i \in 0..t /\ after[i] # balance
      OBVIOUS
    <2>4. i \in 1..N /\ i - 1 \in 0..t /\ i - 1 \in 0..N /\ ~(i <= i - 1) /\ i \notin rows
      BY <1>1, <1>3, <1>5, <2>3
    <2>5. after[i - 1] = balance
      BY <2>2, <2>4
    <2>6. after[i] = after[i - 1] + 0
      BY <1>5, <2>4
    <2>7. QED
      BY <2>3, <2>5, <2>6
  <1>7. ASSUME NEW j \in (t + 1)..N
        PROVE  after[j] = Snapshot(after[j - 1], file[j].interest, file[j].amount).after
    <2>1. j \in 1..N /\ j \in rows /\ j - 1 \in 0..N
      BY <1>1, <1>3
    <2>2. after[j] = after[j - 1] + (file[j].interest - file[j].amount)
      BY <1>5, <2>1
    <2>3. after[j - 1] \in Int /\ file[j].interest \in Int /\ file[j].amount \in Int
      BY <1>2, <1>4, <2>1
    <2>4. after[j] = after[j - 1] + file[j].interest - file[j].amount
      BY <2>2, <2>3
    <2>5. QED
      BY <2>4 DEF Snapshot
  <1>8. after[t] = balance
    BY <1>3, <1>6
  <1>9. QED
    BY <1>7, <1>8 DEF ChainedFrom, after, N

(* What an import of rows t + 1, t + 2, ... of a file leaves. *)
ImportLeaves(file, new, after) ==
  /\ DOMAIN payments' = Recorded \union Range(new)
  /\ \A q \in Recorded : payments'[q] = payments[q] /\ snap'[q] = snap[q]
  /\ snap' = [q \in Recorded \union Range(new) |-> snap'[q]]
  /\ \A i \in DOMAIN new :
       /\ payments'[new[i]] = [date |-> file[i].date, amount |-> file[i].amount,
                               method |-> "import"]
       /\ snap'[new[i]] = Snapshot(after[i - 1], file[i].interest, file[i].amount)
  /\ SameTerms(account, account')

LEMMA ImportedRows ==
  ASSUME HistoryTyped, NEW file, NEW rows, NEW new \in Injection(rows, Ids \ Recorded),
         NEW balance, InsertImported(account, file, new, balance)
  PROVE  ImportLeaves(file, new, RunningAfter(file, rows, balance))
  <1> DEFINE after == RunningAfter(file, rows, balance)
             row(p) == CHOOSE i \in DOMAIN new : new[i] = p
             pay == [p \in Range(new) |-> [date |-> file[row(p)].date,
                                           amount |-> file[row(p)].amount,
                                           method |-> "import"]]
             stored == [p \in Range(new) |-> Snapshot(after[row(p) - 1],
                                                      file[row(p)].interest,
                                                      file[row(p)].amount)]
  <1>1. /\ DOMAIN new = rows /\ \A i \in rows : new[i] \in Ids \ Recorded
        /\ \A i, j \in rows : new[i] = new[j] => i = j
    BY DEF Injection, IsInjective
  <1>2. payments' = Insert(payments, pay) /\ snap' = Insert(snap, stored)
    BY <1>1 DEF InsertImported
  <1>3. SameTerms(account, account')
    <2>1. account \in Account
      BY DEF HistoryTyped
    <2>2. \E s : account' = [account EXCEPT !.status = s]
      BY DEF InsertImported
    <2>3. QED
      BY <2>1, <2>2 DEF SameTerms, Account
  <1>4. \A i \in rows : row(new[i]) = i /\ new[i] \in Range(new)
    BY <1>1 DEF Range
  <1>5. Range(new) \subseteq Ids \ Recorded
    BY <1>1 DEF Range
  <1>6. DOMAIN payments = Recorded /\ DOMAIN snap = Recorded
    BY DEF HistoryTyped, Recorded
  <1> HIDE DEF after, row
  <1>7. /\ DOMAIN pay = Range(new) /\ DOMAIN stored = Range(new)
        /\ \A i \in rows :
             /\ pay[new[i]] = [date |-> file[i].date, amount |-> file[i].amount,
                               method |-> "import"]
             /\ stored[new[i]] = Snapshot(after[i - 1], file[i].interest, file[i].amount)
    BY <1>4
  <1> HIDE DEF pay, stored
  <1>8. /\ DOMAIN payments' = Recorded \union Range(new)
        /\ \A q \in Recorded : payments'[q] = payments[q]
        /\ \A q \in Range(new) : payments'[q] = pay[q]
    <2>1. /\ DOMAIN Insert(payments, pay) = DOMAIN payments \union DOMAIN pay
          /\ \A x \in DOMAIN payments : Insert(payments, pay)[x] = payments[x]
          /\ \A x \in DOMAIN pay \ DOMAIN payments : Insert(payments, pay)[x] = pay[x]
      BY InsertRows
    <2>2. QED
      BY <1>2, <1>5, <1>6, <1>7, <2>1
  <1>9. /\ DOMAIN snap' = Recorded \union Range(new)
        /\ \A q \in Recorded : snap'[q] = snap[q]
        /\ \A q \in Range(new) : snap'[q] = stored[q]
    <2>1. /\ DOMAIN Insert(snap, stored) = DOMAIN snap \union DOMAIN stored
          /\ \A x \in DOMAIN snap : Insert(snap, stored)[x] = snap[x]
          /\ \A x \in DOMAIN stored \ DOMAIN snap : Insert(snap, stored)[x] = stored[x]
      BY InsertRows
    <2>2. QED
      BY <1>2, <1>5, <1>6, <1>7, <2>1
  <1>10. snap' = [q \in Recorded \union Range(new) |-> snap'[q]]
    <2>1. snap' = [q \in DOMAIN snap' |-> snap'[q]]
      BY <1>2 DEF Insert
    <2>2. QED
      BY <1>9, <2>1
  <1>11. \A i \in DOMAIN new :
           /\ payments'[new[i]] = [date |-> file[i].date, amount |-> file[i].amount,
                                   method |-> "import"]
           /\ snap'[new[i]] = Snapshot(after[i - 1], file[i].interest, file[i].amount)
    BY <1>1, <1>4, <1>7, <1>8, <1>9
  <1>12. QED
    BY <1>3, <1>8, <1>9, <1>10, <1>11 DEF ImportLeaves, after

(* The order of a history that the rows of a file were added to. *)
Joined(order, file, new, t) ==
  [i \in 1..(Len(order) + (Len(file) - t)) |->
     IF i <= Len(order) THEN order[i] ELSE new[t + (i - Len(order))]]

LEMMA JoinedOrdered ==
  ASSUME HistoryTyped, NEW order, NEW anchors, NEW balance, NEW last_date \in Nat,
         EndsAt(order, anchors, balance, last_date),
         NEW file \in ImportFiles, NEW t, RowsFrom(file, Accepted(file, last_date), t),
         NEW new \in Injection(Accepted(file, last_date), Ids \ Recorded), NEW after,
         ImportLeaves(file, new, after)
  PROVE  /\ Ordered(payments', Joined(order, file, new, t))
         /\ Len(Joined(order, file, new, t)) = Len(order) + (Len(file) - t)
         /\ Joined(order, file, new, t) \in Chronological(payments')
  <1> DEFINE n == Len(order)
             N == Len(file)
             m == n + (N - t)
             o1 == Joined(order, file, new, t)
             more == payments'
             rows == Accepted(file, last_date)
             at(i) == t + (i - n)
  <1>1. Ordered(payments, order) /\ DOMAIN payments = Recorded
    BY DEF EndsAt, StoredInOrder, Recorded
  <1>2. /\ n \in Nat /\ DOMAIN order = 1..n
        /\ \A i \in 1..n : order[i] \in Recorded
        /\ \A q \in Recorded : \E i \in 1..n : order[i] = q
        /\ \A i, j \in 1..n : order[i] = order[j] => i = j
        /\ \A i, j \in 1..n : i < j => payments[order[i]].date <= payments[order[j]].date
    BY <1>1 DEF Ordered
  <1>3. \A q \in Recorded : payments[q].date \in Nat /\ payments[q].date <= last_date
    BY LedgerAssumption DEF HistoryTyped, Payment, Days, EndsAt
  <1>4. N \in Nat /\ DOMAIN file = 1..N /\ \A i \in 1..N : file[i].date \in Nat
    <2>1. file \in Seq(ImportRows)
      BY LedgerAssumption
    <2>2. \A i \in 1..N : file[i] \in ImportRows
      BY <2>1
    <2>3. \A r \in ImportRows : r.date \in Nat
      BY LedgerAssumption DEF ImportRows, Days
    <2>4. QED
      BY <2>1, <2>2, <2>3
  <1>5. \A i, j \in 1..N : i < j => file[i].date <= file[j].date
    BY <1>4, LedgerAssumption
  <1>6. t \in Nat /\ t <= N - 1 /\ rows = (t + 1)..N
    BY <1>4 DEF RowsFrom
  <1>7. \A i \in rows : i \in 1..N /\ file[i].date >= last_date
    BY <1>4, <1>6 DEF Accepted
  <1>8. /\ DOMAIN new = rows /\ \A i \in rows : new[i] \in Ids \ Recorded
        /\ \A i, j \in rows : new[i] = new[j] => i = j
    BY DEF Injection, IsInjective
  <1>9. /\ DOMAIN more = Recorded \union Range(new)
        /\ \A q \in Recorded : more[q].date = payments[q].date
        /\ \A i \in rows : more[new[i]].date = file[i].date /\ new[i] \in DOMAIN more
    <2>1. \A i \in DOMAIN new :
            payments'[new[i]] = [date |-> file[i].date, amount |-> file[i].amount,
                                 method |-> "import"]
      BY DEF ImportLeaves
    <2>2. \A i \in DOMAIN new : payments'[new[i]].date = file[i].date
      <3>1. SUFFICES ASSUME NEW i \in DOMAIN new
                     PROVE  payments'[new[i]].date = file[i].date
        OBVIOUS
      <3>2. payments'[new[i]] = [date |-> file[i].date, amount |-> file[i].amount,
                                 method |-> "import"]
        BY <2>1
      <3>3. QED
        BY ONLY <3>2
    <2>3. /\ DOMAIN payments' = Recorded \union Range(new)
          /\ \A q \in Recorded : payments'[q] = payments[q]
      BY DEF ImportLeaves
    <2>4. \A i \in DOMAIN new : new[i] \in Range(new)
      BY DEF Range
    <2>5. QED
      BY <1>8, <2>2, <2>3, <2>4
  <1>10. \A q \in Range(new) : \E i \in rows : new[i] = q
    BY <1>8 DEF Range
  <1> HIDE DEF N, n, rows, more
  <1>11. m \in Nat /\ n <= m
    BY <1>2, <1>4, <1>6
  <1>12. /\ DOMAIN o1 = 1..m /\ o1 = [i \in 1..m |-> o1[i]]
         /\ \A i \in 1..m : o1[i] = IF i <= n THEN order[i] ELSE new[at(i)]
    BY DEF Joined, n, N
  <1>13. Len(o1) = m
    BY <1>11, <1>12
  <1>14. \A i \in 1..m : ~(i <= n) => at(i) \in rows
    BY <1>2, <1>4, <1>6
  <1>15. \A j \in rows : \E i \in 1..m : ~(i <= n) /\ at(i) = j
    <2>1. SUFFICES ASSUME NEW j \in rows
                   PROVE  \E i \in 1..m : ~(i <= n) /\ at(i) = j
      OBVIOUS
    <2>2. n + (j - t) \in 1..m /\ ~(n + (j - t) <= n) /\ at(n + (j - t)) = j
      BY <1>2, <1>4, <1>6, <1>7
    <2>3. QED
      BY <2>2
  <1>16. \A i, j \in 1..m : /\ at(i) = at(j) => i = j
                            /\ i < j => at(i) < at(j)
    BY <1>2, <1>6, <1>11
  <1>17. \A i \in 1..m : i <= n => i \in 1..n
    BY <1>2, <1>11
  <1>18. \A i \in 1..n : i \in 1..m
    BY <1>2, <1>11
  <1> HIDE DEF o1, at, m
  <1>19. \A i \in 1..m : o1[i] \in DOMAIN more
    BY <1>2, <1>9, <1>12, <1>14, <1>17
  <1>20. ASSUME NEW q \in DOMAIN more
         PROVE  \E i \in 1..m : o1[i] = q
    <2>1. CASE q \in Recorded
      <3>1. PICK i \in 1..n : order[i] = q
        BY <1>2, <2>1
      <3>2. i \in 1..m /\ i <= n
        BY <1>2, <1>18
      <3>3. QED
        BY <1>12, <3>1, <3>2
    <2>2. CASE q \notin Recorded
      <3>1. PICK j \in rows : new[j] = q
        BY <1>9, <1>10, <2>2
      <3>2. PICK i \in 1..m : ~(i <= n) /\ at(i) = j
        BY <1>15
      <3>3. QED
        BY <1>12, <3>1, <3>2
    <2>3. QED
      BY <2>1, <2>2
  <1>21. ASSUME NEW i \in 1..m, NEW j \in 1..m, o1[i] = o1[j]
         PROVE  i = j
    <2>1. CASE i <= n /\ j <= n
      BY <1>2, <1>12, <1>17, <1>21, <2>1
    <2>2. CASE ~(i <= n) /\ ~(j <= n)
      <3>1. new[at(i)] = new[at(j)] /\ at(i) \in rows /\ at(j) \in rows
        BY <1>12, <1>14, <1>21, <2>2
      <3>2. QED
        BY <1>8, <1>16, <3>1
    <2>3. CASE i <= n /\ ~(j <= n)
      <3>1. o1[i] \in Recorded /\ o1[j] \notin Recorded
        BY <1>2, <1>8, <1>12, <1>14, <1>17, <2>3
      <3>2. QED
        BY <1>21, <3>1
    <2>4. CASE ~(i <= n) /\ j <= n
      <3>1. o1[j] \in Recorded /\ o1[i] \notin Recorded
        BY <1>2, <1>8, <1>12, <1>14, <1>17, <2>4
      <3>2. QED
        BY <1>21, <3>1
    <2>5. QED
      BY <2>1, <2>2, <2>3, <2>4
  <1>22. ASSUME NEW i \in 1..m, NEW j \in 1..m, i < j
         PROVE  more[o1[i]].date <= more[o1[j]].date
    <2>1. CASE i <= n /\ j <= n
      <3>1. o1[i] = order[i] /\ o1[j] = order[j] /\ i \in 1..n /\ j \in 1..n
        BY <1>12, <1>17, <2>1
      <3>2. QED
        BY <1>2, <1>9, <1>22, <3>1
    <2>2. CASE ~(i <= n) /\ ~(j <= n)
      <3>1. /\ o1[i] = new[at(i)] /\ o1[j] = new[at(j)]
            /\ at(i) \in rows /\ at(j) \in rows /\ at(i) < at(j)
        BY <1>12, <1>14, <1>16, <1>22, <2>2
      <3>2. file[at(i)].date <= file[at(j)].date
        BY <1>5, <1>7, <3>1
      <3>3. QED
        BY <1>9, <3>1, <3>2
    <2>3. CASE i <= n /\ ~(j <= n)
      <3>1. /\ o1[i] = order[i] /\ i \in 1..n /\ o1[i] \in Recorded
            /\ o1[j] = new[at(j)] /\ at(j) \in rows
        BY <1>2, <1>12, <1>14, <1>17, <2>3
      <3>2. more[o1[i]].date <= last_date /\ more[o1[i]].date \in Nat
        BY <1>3, <1>9, <3>1
      <3>3. more[o1[j]].date >= last_date /\ more[o1[j]].date \in Nat
        BY <1>4, <1>7, <1>9, <3>1
      <3>4. QED
        BY <3>2, <3>3
    <2>4. CASE ~(i <= n) /\ j <= n
      BY <1>2, <1>11, <1>22, <2>4 DEF m
    <2>5. QED
      BY <2>1, <2>2, <2>3, <2>4
  <1>23. Ordered(more, o1)
    BY <1>11, <1>12, <1>13, <1>19, <1>20, <1>21, <1>22 DEF Ordered, m
  <1>24. o1 \in Chronological(more)
    BY <1>12, <1>13, <1>23, OrderIsChronological
  <1>25. QED
    BY <1>13, <1>23, <1>24 DEF o1, more, m, n, N

LEMMA JoinedConsistent ==
  ASSUME HistoryTyped, HistoryTyped', NEW order, NEW anchors, NEW balance, NEW last_date \in Nat,
         EndsAt(order, anchors, balance, last_date),
         NEW file \in ImportFiles, NEW t, RowsFrom(file, Accepted(file, last_date), t),
         NEW new \in Injection(Accepted(file, last_date), Ids \ Recorded), NEW after,
         ChainedFrom(file, after, t, balance), ImportLeaves(file, new, after)
  PROVE  ConsistentAfter
  <1> DEFINE n == Len(order)
             N == Len(file)
             m == n + (N - t)
             o1 == Joined(order, file, new, t)
             more == payments'
             stored == snap'
             acct == account'
             rows == Accepted(file, last_date)
             at(i) == t + (i - n)
             anchors1 == [i \in 0..m |-> IF i <= n THEN anchors[i]
                                         ELSE AnchorAt(file[at(i)].date, after[at(i)])]
  <1>1. /\ Ordered(payments, order) /\ DOMAIN payments = Recorded
        /\ Replayed(snap, anchors, n, account, payments, snap, order)
        /\ balance = IF n = 0 THEN account.borrow ELSE snap[order[n]].after
    BY DEF EndsAt, StoredInOrder, Recorded
  <1>2. n \in Nat /\ \A i \in 1..n : order[i] \in Recorded
    BY <1>1 DEF Ordered
  <1>3. /\ DOMAIN new = rows /\ \A i \in rows : new[i] \in Ids \ Recorded
    BY DEF Injection
  <1>4. /\ DOMAIN more = Recorded \union Range(new)
        /\ \A q \in Recorded : more[q] = payments[q] /\ stored[q] = snap[q]
        /\ stored = [q \in DOMAIN more |-> stored[q]]
        /\ \A i \in rows :
             /\ more[new[i]] = [date |-> file[i].date, amount |-> file[i].amount,
                                method |-> "import"]
             /\ stored[new[i]] = Snapshot(after[i - 1], file[i].interest, file[i].amount)
        /\ SameTerms(account, acct)
    BY <1>3 DEF ImportLeaves
  <1>5. N \in Nat /\ t \in Nat /\ t <= N - 1 /\ rows = (t + 1)..N
    <2>1. file \in Seq(ImportRows)
      BY LedgerAssumption
    <2>2. N \in Nat
      BY <2>1
    <2>3. QED
      BY <2>2 DEF RowsFrom
  <1>6. /\ Ordered(more, o1) /\ Len(o1) = m /\ o1 \in Chronological(more)
    BY JoinedOrdered
  <1>7. /\ account.start \in Nat /\ acct.start \in Nat
        /\ \A q \in DOMAIN payments : payments[q].date \in Days
        /\ \A q \in DOMAIN more : more[q].date \in Days
    BY <1>1, <1>4, HistoryCounted DEF Terms, SameTerms, HistoryTyped, Payment, Recorded
  <1>8. m \in Nat /\ n <= m /\ \A i \in 1..n : i \in 1..m
    BY <1>2, <1>5
  <1>9. \A i \in 1..m : o1[i] = IF i <= n THEN order[i] ELSE new[at(i)]
    BY DEF Joined
  <1>10. \A i \in 0..m : anchors1[i] = IF i <= n THEN anchors[i]
                                       ELSE AnchorAt(file[at(i)].date, after[at(i)])
    OBVIOUS
  <1>11. after[t] = balance
         /\ \A j \in rows :
              after[j] = Snapshot(after[j - 1], file[j].interest, file[j].amount).after
    BY <1>5 DEF ChainedFrom
  <1> HIDE DEF n, N, m, o1, more, stored, acct, rows, anchors1
  <1>12. \A i \in 0..n : AnchorDated(anchors[i]) /\ i \in 0..m /\ anchors1[i] = anchors[i]
    <2>1. \A i \in 0..n : AnchorDated(anchors[i])
      BY <1>1, <1>7, AnchorsDated DEF n
    <2>2. \A i \in 0..n : i \in 0..m /\ i <= n
      BY <1>2, <1>8
    <2>3. QED
      BY <1>10, <2>1, <2>2
  <1>13. \A i \in 1..n : o1[i] = order[i]
    BY <1>2, <1>8, <1>9
  <1>14. SameSteps(payments, snap, order, more, stored, o1, n)
    BY <1>1, <1>2, <1>4, <1>7, <1>13 DEF SameSteps
  <1>15. Replayed(stored, anchors1, n, acct, more, stored, o1)
    <2>1. \A i \in 1..n : stored[order[i]] = snap[order[i]]
      BY <1>2, <1>4
    <2>2. \A i \in 0..n : anchors1[i] = anchors[i] /\ AnchorDated(anchors[i])
      BY <1>12
    <2>3. QED
      BY <1>1, <1>2, <1>4, <1>7, <1>14, <2>1, <2>2, ReplayedSame
  <1>16. ASSUME NEW i \in 1..m, ~(i <= n)
         PROVE  /\ more[o1[i]].method = "import"
                /\ stored[o1[i]] = ReplayImport(acct, more, stored, o1[i],
                          IF i = 1 THEN acct.borrow ELSE stored[o1[i - 1]].after)
                /\ anchors1[i] = AnchorAt(more[o1[i]].date, stored[o1[i]].after)
    <2> DEFINE j == at(i)
               old == IF i = 1 THEN acct.borrow ELSE stored[o1[i - 1]].after
    <2>1. j \in rows /\ i \in 0..m
      BY <1>2, <1>5, <1>8, <1>16 DEF m
    <2>2. o1[i] = new[j] /\ anchors1[i] = AnchorAt(file[j].date, after[j])
      BY <1>9, <1>10, <1>16, <2>1
    <2>3. old = after[j - 1]
      <3>1. CASE i = n + 1
        <4>1. j - 1 = t /\ i - 1 = n
          BY <1>2, <1>5, <3>1
        <4>2. CASE n = 0
          <5>1. i = 1
            BY <3>1, <4>2
          <5>2. QED
            BY <1>1, <1>4, <1>11, <4>1, <4>2, <5>1 DEF SameTerms
        <4>3. CASE n # 0
          <5>1. i # 1 /\ n \in 1..n
            BY <1>2, <3>1, <4>3
          <5>2. stored[o1[i - 1]].after = snap[order[n]].after
            BY <1>2, <1>4, <1>13, <4>1, <5>1
          <5>3. QED
            BY <1>1, <1>11, <4>1, <4>3, <5>1, <5>2
        <4>4. QED
          BY <4>2, <4>3
      <3>2. CASE i # n + 1
        <4>1. i # 1 /\ i - 1 \in 1..m /\ ~(i - 1 <= n) /\ at(i - 1) = j - 1 /\ j - 1 \in rows
          BY <1>2, <1>5, <1>8, <1>16, <3>2 DEF m
        <4>2. o1[i - 1] = new[j - 1]
          BY <1>9, <4>1
        <4>3. stored[new[j - 1]].after = after[j - 1]
          BY <1>4, <1>11, <4>1
        <4>4. QED
          BY <4>1, <4>2, <4>3
      <3>3. QED
        BY <3>1, <3>2
    <2> HIDE DEF j, old
    <2>4. /\ more[new[j]].date = file[j].date /\ more[new[j]].amount = file[j].amount
          /\ more[new[j]].method = "import"
          /\ stored[new[j]] = Snapshot(after[j - 1], file[j].interest, file[j].amount)
      <3>1. more[new[j]] = [date |-> file[j].date, amount |-> file[j].amount,
                            method |-> "import"]
        BY <1>4, <2>1
      <3>2. stored[new[j]] = Snapshot(after[j - 1], file[j].interest, file[j].amount)
        BY <1>4, <2>1
      <3>3. QED
        BY <3>1, <3>2
    <2>5. stored[new[j]].interest = file[j].interest
      BY <2>4 DEF Snapshot
    <2>6. stored[new[j]].after = after[j]
      BY <1>11, <2>1, <2>4
    <2>7. stored[new[j]] = ReplayImport(acct, more, stored, new[j], old)
      BY <2>3, <2>4, <2>5 DEF ReplayImport
    <2>8. QED
      BY <2>2, <2>4, <2>6, <2>7 DEF old
  <1>17. Replayed(stored, anchors1, m, acct, more, stored, o1)
    <2>1. \A i \in 1..m : i <= n => i \in 1..n
      BY <1>2, <1>8
    <2>2. ASSUME NEW i \in 1..m
          PROVE  IF more[o1[i]].method = "import"
                 THEN /\ stored[o1[i]] = ReplayImport(acct, more, stored, o1[i],
                           IF i = 1 THEN acct.borrow ELSE stored[o1[i - 1]].after)
                      /\ anchors1[i] = AnchorAt(more[o1[i]].date, stored[o1[i]].after)
                 ELSE /\ stored[o1[i]] = ReplayNative(acct, more, o1[i],
                           {o1[j] : j \in 1..(i - 1)}, anchors1[i - 1])
                      /\ anchors1[i] = anchors1[i - 1]
      <3>1. CASE i <= n
        BY <1>15, <2>1, <3>1 DEF Replayed
      <3>2. CASE ~(i <= n)
        BY <1>16, <3>2
      <3>3. QED
        BY <3>1, <3>2
    <2>3. anchors1[0] = NoAnchor
      BY <1>15 DEF Replayed
    <2>4. QED
      BY <2>2, <2>3 DEF Replayed
  <1>18. stored = Replay(acct, more, stored, o1)
    BY <1>4, <1>6, <1>7, <1>17, ReplayUnique
  <1>19. QED
    BY <1>6, <1>18 DEF ConsistentAfter, ConsistentIn, more, stored, acct

LEMMA ImportKeepsConsistent ==
  ASSUME TypedInv, HistoryTyped', ConsistentBefore, ~ImportTie(payments),
         NEW file \in ImportFiles, NEW order \in Chronological(payments),
         ImportExisting(file, order), Added # {}
  PROVE  ConsistentAfter
  <1> DEFINE last_date == HistoryEnd(order).date
             balance == HistoryEnd(order).balance
             rows == Accepted(file, last_date)
  <1>1. PICK new \in Injection(rows, Ids \ Recorded) :
          InsertImported(account, file, new, balance)
    BY DEF ImportExisting
  <1>2. HistoryTyped /\ Exists
    BY DEF ImportExisting, TypedInv, IInv
  <1>3. PICK o, anchors : EndsAt(o, anchors, balance, last_date)
    BY <1>2, HistoryEndsThere
  <1>4. last_date \in Nat /\ balance \in Int
    <2>1. CASE order = <<>>
      BY <1>2, <2>1, LedgerAssumption
         DEF HistoryEnd, Disbursement, HistoryTyped, Account, Exists
    <2>2. CASE order # <<>>
      <3>1. Recorded # {}
        <4>1. ASSUME Recorded = {} PROVE FALSE
          <5>1. order \in [1..0 -> {}]
            BY <4>1, FS_EmptySet DEF Chronological, Bijection, Injection, Recorded
          <5>2. QED
            BY <2>2, <5>1
        <4>2. QED
          BY <4>1
      <3>2. order[Len(order)] \in Recorded
        BY <1>2, <3>1, OrderOfRows
      <3>3. snap[order[Len(order)]].after \in Int
        BY <3>2 DEF TypedInv, Money
      <3>4. payments[order[Len(order)]].date \in Nat
        BY <1>2, <3>2, LedgerAssumption DEF HistoryTyped, Payment, Days
      <3>5. QED
        BY <2>2, <3>3, <3>4 DEF HistoryEnd
    <2>3. QED
      BY <2>1, <2>2
  <1> HIDE DEF last_date, balance
  <1>5. ImportLeaves(file, new, RunningAfter(file, rows, balance))
    BY <1>1, <1>2, ImportedRows
  <1>6. rows # {}
    <2>1. SUFFICES ASSUME rows = {} PROVE FALSE
      OBVIOUS
    <2>2. Range(new) = {}
      BY <2>1 DEF Range, Injection
    <2>3. Recorded' = Recorded
      BY <1>5, <2>2 DEF ImportLeaves, Recorded
    <2>4. QED
      BY <2>3 DEF Added
  <1>7. PICK t : RowsFrom(file, rows, t)
    BY <1>4, <1>6, AcceptedRowsAreLast
  <1>8. ChainedFrom(file, RunningAfter(file, rows, balance), t, balance)
    <2>1. file \in Seq(ImportRows)
      BY LedgerAssumption
    <2> HIDE DEF rows
    <2>2. QED
      BY <1>4, <1>7, <2>1, RowsChained
  <1>9. QED
    BY <1>1, <1>2, <1>3, <1>4, <1>5, <1>7, <1>8, JoinedConsistent

(* Appending rows at the end of a consistent history, be they imported or  *)
(* made through the application, keeps it consistent: a recalculation      *)
(* would store what is already there.                                      *)
THEOREM AppendAlwaysKeepsConsistent == Spec => AppendKeepsConsistent
  <1> DEFINE Kept == Exists /\ Added # {} /\ ~ImportTie(payments) /\ ConsistentBefore
                       /\ (\A p \in Added, q \in Recorded :
                             payments[q].date < payments'[p].date)
                       => ConsistentAfter
  <1>1. TypedInv /\ [Next]_vars => [Kept]_vars
    <2>1. SUFFICES ASSUME TypedInv, [Next]_vars, Exists, Added # {}, ~ImportTie(payments),
                          ConsistentBefore,
                          \A p \in Added, q \in Recorded :
                            payments[q].date < payments'[p].date
                   PROVE  ConsistentAfter
      OBVIOUS
    <2>2. IInv /\ HistoryTyped /\ HistoryTyped'
      <3>1. IInv'
        BY <2>1, InvariantHolds DEF TypedInv
      <3>2. QED
        BY <2>1, <3>1 DEF TypedInv, IInv
    <2>3. CASE AddSome
      <3>1. PICK p \in Ids \ Recorded, a \in Amounts, d \in Days,
                 m \in {"auto", "manual"}, order \in Chronological(payments) :
              AddPayment(p, a, d, m, order)
        BY <2>3 DEF AddSome
      <3>2. Added = {p} /\ payments'[p] = [date |-> d, amount |-> a, method |-> m]
        BY <3>1, AddedByPayment
      <3>3. \A q \in Recorded : payments[q].date < d
        BY <2>1, <3>2
      <3>4. QED
        BY <2>1, <2>2, <3>1, <3>3, AddKeepsConsistent
    <2>4. CASE ImportSome
      <3>1. PICK f \in ImportFiles :
              \/ \E order \in Chronological(payments) : ImportExisting(f, order)
              \/ ImportCreate(f)
        BY <2>4 DEF ImportSome
      <3>2. ~ImportCreate(f)
        BY <2>1 DEF ImportCreate
      <3>3. PICK order \in Chronological(payments) : ImportExisting(f, order)
        BY <3>1, <3>2
      <3>4. QED
        BY <2>1, <2>2, <3>3, ImportKeepsConsistent
    <2>5. CASE ~AddSome /\ ~ImportSome
      <3>1. CASE \/ Tick \/ CreateAccount \/ UpdateAccount \/ CloseAccount
                 \/ \E force \in BOOLEAN : PurgeAccount(force)
                 \/ UNCHANGED vars
        <4>1. payments' = payments \/ payments' = <<>>
          BY <3>1 DEF Tick, CreateAccount, UpdateAccount, CloseAccount, PurgeAccount, vars
        <4>2. QED
          BY <2>1, <4>1 DEF Added, Recorded
      <3>2. CASE DeleteSome
        <4>1. Recorded' \subseteq Recorded
          BY <2>2, <3>2, DeleteTyped DEF DeleteSome, Without
        <4>2. QED
          BY <2>1, <4>1 DEF Added
      <3>3. QED
        BY <2>1, <2>5, <3>1, <3>2 DEF Next
    <2>6. QED
      BY <2>3, <2>4, <2>5
  <1>2. QED
    BY <1>1, TypedInvAlways, PTL DEF Spec, AppendKeepsConsistent
=============================================================================
