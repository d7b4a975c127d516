----------------------------- MODULE ImportsProofs -----------------------------
(***************************************************************************)
(* The imports, for every file, export, limit and number of commits.       *)
(*                                                                         *)
(* A row is followed field by field through the parsers (RowEffect,        *)
(* AccountEffect, PaymentEffect); what a file says is a sum over its rows, *)
(* and the sum over one row more is the old one plus its amount            *)
(* (AmountGrows).  Each invariant has a part of its own: UploadInv of the  *)
(* request, ReadingInv of the reading, CommitInv of the commits,           *)
(* AccountInv of the rows of a legacy file and BackInv of an export.       *)
(***************************************************************************)
EXTENDS Imports, TLAPS, WellFoundedInduction, FiniteSetTheorems

-----------------------------------------------------------------------------
(* Numbers and orders. *)

Less == {ss \in Nat \X Nat : ss[1] < ss[2]}

(* No sequence of natural numbers decreases for ever. *)
LEMMA LessWellFounded == IsWellFoundedOn(Less, Nat)
  <1>1. OpToRel(<, Nat) = Less
    BY DEF OpToRel, Less
  <1>2. QED
    BY <1>1, NatLessThanWellFounded

(* A nonempty set of natural numbers has a least element. *)
LEMMA LeastExists ==
  ASSUME NEW S \in SUBSET Nat, S # {}
  PROVE  \E m \in S : \A n \in S : m <= n
  <1>1. PICK m \in S : \A n \in S : <<n, m>> \notin Less
    BY LessWellFounded, WFMin
  <1>2. ASSUME NEW n \in S
        PROVE  m <= n
    <2>1. n \in Nat /\ m \in Nat /\ <<n, m>> \notin Less
      BY <1>1
    <2>2. QED
      BY <2>1 DEF Less
  <1>3. QED
    BY <1>2

(* R orders S. *)
Orders(R, S) ==
  /\ \A x, y \in S : x = y \/ <<x, y>> \in R \/ <<y, x>> \in R
  /\ \A x, y, z \in S : <<x, y>> \in R /\ <<y, z>> \in R => <<x, z>> \in R

Greatest(m, R, S) == m \in S /\ \A x \in S : x = m \/ <<x, m>> \in R

(* A finite set has a greatest element in every order. *)
LEMMA GreatestExists ==
  ASSUME NEW S, NEW R, IsFiniteSet(S), Orders(R, S), S # {}
  PROVE  \E m : Greatest(m, R, S)
  <1> DEFINE Bad == {n \in Nat : \E T \in SUBSET S :
                       Cardinality(T) = n /\ T # {} /\ ~ \E m : Greatest(m, R, T)}
  <1>1. \A T \in SUBSET S : IsFiniteSet(T) /\ Cardinality(T) \in Nat
    BY FS_Subset, FS_CardinalityType
  <1>2. Bad = {}
    <2>1. SUFFICES ASSUME Bad # {} PROVE FALSE
      OBVIOUS
    <2>2. PICK n \in Bad : \A m \in Bad : n <= m
      BY <2>1, LeastExists
    <2>3. PICK T \in SUBSET S :
            Cardinality(T) = n /\ T # {} /\ ~ \E m : Greatest(m, R, T)
      OBVIOUS
    <2>4. PICK x \in T : TRUE
      BY <2>3
    <2>5. T \ {x} \in SUBSET S /\ Cardinality(T \ {x}) = n - 1
      BY <1>1, <2>3, FS_RemoveElement
    <2>6. n \in Nat /\ n - 1 \in Nat /\ ~(n <= n - 1)
      BY <1>1, <2>5
    <2>7. CASE T \ {x} = {}
      <3>1. Greatest(x, R, T)
        BY <2>7 DEF Greatest
      <3>2. QED
        BY <2>3, <3>1
    <2>8. CASE T \ {x} # {}
      <3>1. PICK m : Greatest(m, R, T \ {x})
        BY <2>2, <2>5, <2>6, <2>8
      <3>2. m \in T /\ \A y \in T : y = x \/ y = m \/ <<y, m>> \in R
        BY <3>1 DEF Greatest
      <3>3. <<x, m>> \in R \/ x = m => Greatest(m, R, T)
        BY <3>2 DEF Greatest
      <3>4. <<m, x>> \in R => Greatest(x, R, T)
        <4>1. ASSUME <<m, x>> \in R, NEW y \in T, y # x
              PROVE  <<y, x>> \in R
          <5>1. y = m \/ <<y, m>> \in R
            BY <3>2, <4>1
          <5>2. y \in S /\ m \in S /\ x \in S
            BY <3>2
          <5>3. QED
            BY <4>1, <5>1, <5>2 DEF Orders
        <4>2. QED
          BY <4>1 DEF Greatest
      <3>5. QED
        BY <2>3, <3>2, <3>3, <3>4 DEF Orders
    <2>9. QED
      BY <2>7, <2>8
  <1>3. S \in SUBSET S /\ Cardinality(S) \in Nat
    BY <1>1
  <1>4. QED
    BY <1>2, <1>3

(* s lists the elements of S, each before those that follow it in R. *)
Lists(s, R, S) ==
  /\ s \in Bijection(1..Cardinality(S), S)
  /\ \A i, j \in 1..Cardinality(S) : i < j => <<s[i], s[j]>> \in R

(* A finite set can be sorted. *)
LEMMA ListExists ==
  ASSUME NEW S, NEW R, IsFiniteSet(S), Orders(R, S)
  PROVE  \E s : Lists(s, R, S)
  <1> DEFINE Bad == {n \in Nat : \E T \in SUBSET S :
                       Cardinality(T) = n /\ ~ \E s : Lists(s, R, T)}
  <1>1. \A T \in SUBSET S : IsFiniteSet(T) /\ Cardinality(T) \in Nat
    BY FS_Subset, FS_CardinalityType
  <1>2. Bad = {}
    <2>1. SUFFICES ASSUME Bad # {} PROVE FALSE
      OBVIOUS
    <2>2. PICK n \in Bad : \A m \in Bad : n <= m
      BY <2>1, LeastExists
    <2>3. PICK T \in SUBSET S : Cardinality(T) = n /\ ~ \E s : Lists(s, R, T)
      OBVIOUS
    <2>4. T # {}
      <3>1. SUFFICES ASSUME T = {} PROVE FALSE
        OBVIOUS
      <3>2. Cardinality(T) = 0
        BY <3>1, FS_EmptySet
      <3> DEFINE s == [i \in 1..0 |-> i]
      <3>3. s \in Bijection(1..Cardinality(T), T)
        BY <3>1, <3>2 DEF Bijection, Injection, Surjection, IsInjective
      <3>4. Lists(s, R, T)
        BY <3>2, <3>3 DEF Lists
      <3>5. QED
        BY <2>3, <3>4
    <2>5. PICK m : Greatest(m, R, T)
      BY <1>1, <2>4, GreatestExists DEF Orders
    <2> DEFINE U == T \ {m}
    <2>6. m \in T /\ m \notin U /\ T = U \union {m} /\ \A x \in U : <<x, m>> \in R
      BY <2>5 DEF Greatest
    <2>7. U \in SUBSET S /\ Cardinality(U) = n - 1
      BY <1>1, <2>3, <2>6, FS_RemoveElement
    <2>8. n \in Nat /\ n - 1 \in Nat /\ ~(n <= n - 1) /\ 1 <= n
      BY <1>1, <2>7
    <2>9. PICK s : Lists(s, R, U)
      BY <2>2, <2>7, <2>8
    <2> HIDE DEF U, Bad
    <2>10. /\ s \in [1..(n - 1) -> U]
           /\ \A i, j \in 1..(n - 1) : s[i] = s[j] => i = j
           /\ \A x \in U : \E i \in 1..(n - 1) : s[i] = x
           /\ \A i, j \in 1..(n - 1) : i < j => <<s[i], s[j]>> \in R
      BY <2>7, <2>9 DEF Lists, Bijection, Injection, Surjection, IsInjective
    <2> DEFINE t == [i \in 1..n |-> IF i < n THEN s[i] ELSE m]
    <2>11. /\ \A i \in 1..(n - 1) : i \in 1..n /\ i < n /\ t[i] = s[i] /\ s[i] \in U
           /\ n \in 1..n /\ t[n] = m
           /\ \A i \in 1..n : i = n \/ i \in 1..(n - 1)
      BY <2>8, <2>10
    <2>12. t \in [1..n -> T]
      BY <2>6, <2>11
    <2>13. \A i, j \in 1..n : t[i] = t[j] => i = j
      <3> HIDE DEF t
      <3>1. QED
        BY <2>6, <2>10, <2>11
    <2>14. \A x \in T : \E i \in 1..n : t[i] = x
      <3> HIDE DEF t
      <3>1. QED
        BY <2>6, <2>10, <2>11
    <2>15. \A i, j \in 1..n : i < j => <<t[i], t[j]>> \in R
      <3>1. SUFFICES ASSUME NEW i \in 1..n, NEW j \in 1..n, i < j
                     PROVE  <<t[i], t[j]>> \in R
        OBVIOUS
      <3>2. i \in 1..(n - 1)
        BY <2>8, <3>1
      <3> HIDE DEF t
      <3>3. QED
        BY <2>6, <2>10, <2>11, <3>1, <3>2
    <2>16. Lists(t, R, T)
      <3> HIDE DEF t
      <3>1. QED
        BY <2>3, <2>12, <2>13, <2>14, <2>15
           DEF Lists, Bijection, Injection, Surjection, IsInjective
    <2>17. QED
      BY <2>3, <2>16
  <1>3. S \in SUBSET S /\ Cardinality(S) \in Nat
    BY <1>1
  <1>4. QED
    BY <1>2, <1>3

(* Finitely many naturals, and one more, have a largest. *)
LEMMA MaxTyped ==
  ASSUME NEW J, IsFiniteSet(J), NEW f \in [J -> Nat], NEW b \in Nat
  PROVE  Max({b} \union {f[j] : j \in J}) \in Nat
  <1> DEFINE T == {f[j] : j \in J}
             S == {b} \union T
             R == {p \in Nat \X Nat : p[1] <= p[2]}
  <1>1. IsFiniteSet(T)
    <2>1. f \in Surjection(J, T)
      BY DEF Surjection
    <2>2. QED
      BY <2>1, FS_Surjection
  <1>2. S \in SUBSET Nat /\ S # {}
    OBVIOUS
  <1>3. IsFiniteSet(S)
    <2>1. IsFiniteSet({b})
      BY FS_Singleton
    <2>2. QED
      BY <1>1, <2>1, FS_Union
  <1> HIDE DEF T, S
  <1>4. Orders(R, S)
    BY <1>2 DEF Orders
  <1>5. PICK m : Greatest(m, R, S)
    BY <1>2, <1>3, <1>4, GreatestExists
  <1>6. m \in S /\ \A x \in S : m >= x
    <2>1. m \in S /\ \A x \in S : x = m \/ <<x, m>> \in R
      BY <1>5 DEF Greatest
    <2>2. \A x \in S : x \in Nat
      BY <1>2
    <2>3. \A x \in S : <<x, m>> \in R => x <= m
      BY <2>1, <2>2
    <2> HIDE DEF R
    <2>4. ASSUME NEW x \in S PROVE m >= x
      <3>1. m \in Nat /\ x \in Nat
        BY <2>1, <2>2
      <3>2. x = m \/ x <= m
        BY <2>1, <2>3
      <3>3. QED
        BY <3>1, <3>2
    <2>5. QED
      BY <2>1, <2>4
  <1>7. Max(S) \in S
    BY <1>6 DEF Max
  <1>8. QED
    BY <1>2, <1>7 DEF S, T

(* Keys are sorted by reference and date. *)
LEMMA KeysSorted ==
  ASSUME NEW S \in SUBSET Keys, IsFiniteSet(S)
  PROVE  LET Before(k, l) == k[1] < l[1] \/ (k[1] = l[1] /\ k[2] <= l[2])
         IN  SortedBy(S, Before) \in Bijection(1..Cardinality(S), S)
  <1> DEFINE R == {p \in Keys \X Keys : \/ p[1][1] < p[2][1]
                                        \/ p[1][1] = p[2][1] /\ p[1][2] <= p[2][2]}
  <1>1. \A k \in S : k \in Keys /\ k = <<k[1], k[2]>> /\ k[1] \in Nat /\ k[2] \in Nat
    <2>1. Refs \subseteq Nat /\ Dates \subseteq Nat
      BY ParsersAssumption
    <2>2. \A k \in Refs \X Dates : k = <<k[1], k[2]>> /\ k[1] \in Refs /\ k[2] \in Dates
      OBVIOUS
    <2>3. QED
      BY <2>1, <2>2 DEF Keys
  <1>2. \A k, l \in S : <<k, l>> \in R
                          <=> (k[1] < l[1] \/ (k[1] = l[1] /\ k[2] <= l[2]))
    BY <1>1
  <1>3. Orders(R, S)
    <2> HIDE DEF R
    <2>1. \A x, y \in S : x = y \/ <<x, y>> \in R \/ <<y, x>> \in R
      <3>1. SUFFICES ASSUME NEW x \in S, NEW y \in S
                     PROVE  x = y \/ <<x, y>> \in R \/ <<y, x>> \in R
        OBVIOUS
      <3>2. x = <<x[1], x[2]>> /\ y = <<y[1], y[2]>>
            /\ x[1] \in Nat /\ x[2] \in Nat /\ y[1] \in Nat /\ y[2] \in Nat
        BY <1>1
      <3>3. x[1] = y[1] /\ x[2] = y[2] => x = y
        BY <3>2
      <3>4. QED
        BY <1>2, <3>2, <3>3
    <2>2. \A x, y, z \in S : <<x, y>> \in R /\ <<y, z>> \in R => <<x, z>> \in R
      BY <1>1, <1>2
    <2>3. QED
      BY <2>1, <2>2 DEF Orders
  <1>4. PICK s : Lists(s, R, S)
    BY <1>3, ListExists
  <1> HIDE DEF R
  <1>5. /\ s \in Bijection(1..Cardinality(S), S) /\ DOMAIN s = 1..Cardinality(S)
        /\ \A i \in DOMAIN s : s[i] \in S
        /\ \A i, j \in DOMAIN s : i < j => <<s[i], s[j]>> \in R
    BY <1>4 DEF Lists, Bijection, Injection
  <1>6. \A i, j \in DOMAIN s : i < j =>
          (s[i][1] < s[j][1] \/ (s[i][1] = s[j][1] /\ s[i][2] <= s[j][2]))
    BY <1>2, <1>5
  <1>7. QED
    BY <1>5, <1>6 DEF SortedBy

-----------------------------------------------------------------------------
(* What the parsers make of a row. *)

AccountRecords == [ref : Refs, borrow_amount : Int, start_date : Dates, rate : Amounts,
                   name : Seq(Letters) \union {None}]
PaymentRecords == [ref : Refs, date : Dates, amount : Int, interest : Int]
Groups         == [interest : Amounts, payment : Amounts, rows : Seq(Nat)]
Readings       == [accounts : Seq(AccountRecords), payments : Seq(PaymentRecords),
                   errors : Seq(Nat), groups : [Keys -> Groups]]

LegacyCells(row) ==
  /\ row.ref \in Refs \union {None} /\ row.date \in Dates \union {None}
  /\ row.debito \in Amounts /\ row.credito \in Amounts

NativeCells(row) ==
  /\ row.ref \in Refs \union {None} /\ row.date \in Dates \union {None, Blank}
  /\ row.account \in AccountCellSet \union {None}
  /\ row.amount \in Amounts /\ row.interest \in Amounts

Key(row) == <<row.ref, row.date>>

Keyed(header, row) == header = "exact" /\ row.ref # None /\ row.date # None

Opens(acc, row) ==
  row.kind = "disbursement" /\ row.debito # None /\ row.ref \notin RefsOf(acc.accounts)

Refused(acc, header, row) ==
  \/ ~Keyed(header, row)
  \/ /\ ~Opens(acc, row)
     /\ ~(row.kind = "interest" /\ row.debito # None)
     /\ ~(row.kind = "payment" /\ row.credito # None)

Opened(row) == [ref |-> row.ref, borrow_amount |-> row.debito, start_date |-> row.date,
                rate |-> None, name |-> None]

(* The group of a row after it. *)
Grown(g, i, row) ==
  [interest |-> IF row.kind = "interest" /\ row.debito # None
                  THEN Plus(g.interest, row.debito) ELSE g.interest,
   payment  |-> IF row.kind = "payment" /\ row.credito # None
                  THEN Plus(g.payment, row.credito) ELSE g.payment,
   rows     |-> Append(g.rows, i)]

(* Replacing one field of a group or of a reading. *)
LEMMA GroupFields ==
  ASSUME NEW g \in Groups, NEW v
  PROVE  /\ [g EXCEPT !.interest = v]
              = [interest |-> v, payment |-> g.payment, rows |-> g.rows]
         /\ [g EXCEPT !.payment = v]
              = [interest |-> g.interest, payment |-> v, rows |-> g.rows]
         /\ [g EXCEPT !.rows = v]
              = [interest |-> g.interest, payment |-> g.payment, rows |-> v]
  BY DEF Groups

(* Replacing one field of a reading. *)
LEMMA ReadingFields ==
  ASSUME NEW acc \in Readings, NEW v
  PROVE  /\ [acc EXCEPT !.groups = v]
              = [accounts |-> acc.accounts, payments |-> acc.payments,
                 errors |-> acc.errors, groups |-> v]
         /\ [acc EXCEPT !.errors = v]
              = [accounts |-> acc.accounts, payments |-> acc.payments,
                 errors |-> v, groups |-> acc.groups]
         /\ [acc EXCEPT !.payments = v]
              = [accounts |-> acc.accounts, payments |-> v,
                 errors |-> acc.errors, groups |-> acc.groups]
         /\ [acc EXCEPT !.accounts = v]
              = [accounts |-> v, payments |-> acc.payments,
                 errors |-> acc.errors, groups |-> acc.groups]
  BY DEF Readings

(* Replacing a field of one group is replacing the groups. *)
LEMMA NestedFields ==
  ASSUME NEW acc, NEW k, NEW v
  PROVE  /\ [acc EXCEPT !.groups[k].interest = v]
              = [acc EXCEPT !.groups =
                   [acc.groups EXCEPT ![k] = [acc.groups[k] EXCEPT !.interest = v]]]
         /\ [acc EXCEPT !.groups[k].payment = v]
              = [acc EXCEPT !.groups =
                   [acc.groups EXCEPT ![k] = [acc.groups[k] EXCEPT !.payment = v]]]
         /\ [acc EXCEPT !.groups[k].rows = v]
              = [acc EXCEPT !.groups =
                   [acc.groups EXCEPT ![k] = [acc.groups[k] EXCEPT !.rows = v]]]
  OBVIOUS

(* Replacing one group. *)
LEMMA ReadingGroups ==
  ASSUME NEW acc \in Readings, NEW k, NEW u
  PROVE  [acc EXCEPT !.groups = [acc.groups EXCEPT ![k] = u]]
           = [accounts |-> acc.accounts, payments |-> acc.payments,
              errors |-> acc.errors, groups |-> [acc.groups EXCEPT ![k] = u]]
  <1> DEFINE w == [acc.groups EXCEPT ![k] = u]
  <1> HIDE DEF w
  <1>1. [acc EXCEPT !.groups = w]
          = [accounts |-> acc.accounts, payments |-> acc.payments,
             errors |-> acc.errors, groups |-> w]
    BY ReadingFields
  <1>2. QED
    BY <1>1 DEF w

(* Replacing the interest of a group, field by field. *)
LEMMA ReadingInterest ==
  ASSUME NEW acc \in Readings, NEW k \in Keys, NEW v
  PROVE  [acc EXCEPT !.groups[k].interest = v]
           = [accounts |-> acc.accounts, payments |-> acc.payments, errors |-> acc.errors,
              groups |-> [acc.groups EXCEPT ![k] =
                [interest |-> v, payment |-> acc.groups[k].payment,
                 rows |-> acc.groups[k].rows]]]
  <1> DEFINE u == [acc.groups[k] EXCEPT !.interest = v]
  <1>1. [acc EXCEPT !.groups[k].interest = v]
          = [acc EXCEPT !.groups = [acc.groups EXCEPT ![k] = u]]
    BY NestedFields
  <1>2. u = [interest |-> v, payment |-> acc.groups[k].payment,
                 rows |-> acc.groups[k].rows]
    <2>1. acc.groups[k] \in Groups
      BY DEF Readings
    <2>2. QED
      BY <2>1, GroupFields
  <1> HIDE DEF u
  <1>3. [acc EXCEPT !.groups = [acc.groups EXCEPT ![k] = u]]
          = [accounts |-> acc.accounts, payments |-> acc.payments,
             errors |-> acc.errors, groups |-> [acc.groups EXCEPT ![k] = u]]
    BY ReadingGroups
  <1>4. QED
    BY ONLY <1>1, <1>2, <1>3

(* The same of its payment. *)
LEMMA ReadingPayment ==
  ASSUME NEW acc \in Readings, NEW k \in Keys, NEW v
  PROVE  [acc EXCEPT !.groups[k].payment = v]
           = [accounts |-> acc.accounts, payments |-> acc.payments, errors |-> acc.errors,
              groups |-> [acc.groups EXCEPT ![k] =
                [interest |-> acc.groups[k].interest, payment |-> v,
                 rows |-> acc.groups[k].rows]]]
  <1> DEFINE u == [acc.groups[k] EXCEPT !.payment = v]
  <1>1. [acc EXCEPT !.groups[k].payment = v]
          = [acc EXCEPT !.groups = [acc.groups EXCEPT ![k] = u]]
    BY NestedFields
  <1>2. u = [interest |-> acc.groups[k].interest, payment |-> v,
                 rows |-> acc.groups[k].rows]
    <2>1. acc.groups[k] \in Groups
      BY DEF Readings
    <2>2. QED
      BY <2>1, GroupFields
  <1> HIDE DEF u
  <1>3. [acc EXCEPT !.groups = [acc.groups EXCEPT ![k] = u]]
          = [accounts |-> acc.accounts, payments |-> acc.payments,
             errors |-> acc.errors, groups |-> [acc.groups EXCEPT ![k] = u]]
    BY ReadingGroups
  <1>4. QED
    BY ONLY <1>1, <1>2, <1>3

(* The same of its rows. *)
LEMMA ReadingRows ==
  ASSUME NEW acc \in Readings, NEW k \in Keys, NEW v
  PROVE  [acc EXCEPT !.groups[k].rows = v]
           = [accounts |-> acc.accounts, payments |-> acc.payments, errors |-> acc.errors,
              groups |-> [acc.groups EXCEPT ![k] =
                [interest |-> acc.groups[k].interest, payment |-> acc.groups[k].payment,
                 rows |-> v]]]
  <1> DEFINE u == [acc.groups[k] EXCEPT !.rows = v]
  <1>1. [acc EXCEPT !.groups[k].rows = v]
          = [acc EXCEPT !.groups = [acc.groups EXCEPT ![k] = u]]
    BY NestedFields
  <1>2. u = [interest |-> acc.groups[k].interest, payment |-> acc.groups[k].payment,
                 rows |-> v]
    <2>1. acc.groups[k] \in Groups
      BY DEF Readings
    <2>2. QED
      BY <2>1, GroupFields
  <1> HIDE DEF u
  <1>3. [acc EXCEPT !.groups = [acc.groups EXCEPT ![k] = u]]
          = [accounts |-> acc.accounts, payments |-> acc.payments,
             errors |-> acc.errors, groups |-> [acc.groups EXCEPT ![k] = u]]
    BY ReadingGroups
  <1>4. QED
    BY ONLY <1>1, <1>2, <1>3

(* A legacy row, field by field. *)
LEMMA LegacyRowFields ==
  ASSUME NEW acc \in Readings, NEW header, NEW i \in Nat, NEW row, LegacyCells(row)
  PROVE  LET r == LegacyRow(acc, header, i, row)
         IN  /\ r.payments = acc.payments
             /\ r.errors = IF Refused(acc, header, row) THEN Append(acc.errors, i)
                                                        ELSE acc.errors
             /\ r.accounts = IF Keyed(header, row) /\ Opens(acc, row)
                               THEN Append(acc.accounts, Opened(row)) ELSE acc.accounts
             /\ r.groups = IF Keyed(header, row)
                             THEN [acc.groups EXCEPT ![Key(row)] = Grown(@, i, row)]
                             ELSE acc.groups
             /\ r = [accounts |-> r.accounts, payments |-> r.payments,
                     errors |-> r.errors, groups |-> r.groups]
  <1>1. acc = [accounts |-> acc.accounts, payments |-> acc.payments,
               errors |-> acc.errors, groups |-> acc.groups]
    BY DEF Readings
  <1>2. CASE ~Keyed(header, row)
    <2>1. LegacyRow(acc, header, i, row) = [acc EXCEPT !.errors = Append(@, i)]
      BY <1>2 DEF LegacyRow, Flagged, Keyed
    <2>2. Refused(acc, header, row)
      BY <1>2 DEF Refused
    <2>3. QED
      BY <1>1, <1>2, <2>1, <2>2
  <1>3. CASE Keyed(header, row)
    <2> DEFINE k    == Key(row)
               g    == acc.groups
               seen == [acc EXCEPT !.groups[k].rows = Append(@, i)]
    <2>1. k \in Keys /\ g \in [Keys -> Groups] /\ g[k] \in Groups
      <3>1. row.ref \in Refs /\ row.date \in Dates
        BY <1>3 DEF Keyed, LegacyCells
      <3>2. QED
        BY <3>1 DEF Keys, Key, Readings
    <2>2. g[k] = [interest |-> g[k].interest, payment |-> g[k].payment, rows |-> g[k].rows]
      BY <2>1 DEF Groups
    <2>3. seen = [accounts |-> acc.accounts, payments |-> acc.payments,
                  errors |-> acc.errors,
                  groups |-> [g EXCEPT ![k] = [interest |-> g[k].interest,
                                               payment |-> g[k].payment,
                                               rows |-> Append(g[k].rows, i)]]]
      BY <2>1, ReadingRows
    <2>4. /\ seen \in Readings
           /\ seen.accounts = acc.accounts /\ seen.payments = acc.payments
           /\ seen.errors = acc.errors
           /\ seen.groups = [g EXCEPT ![k] = [interest |-> g[k].interest,
                                              payment |-> g[k].payment,
                                              rows |-> Append(g[k].rows, i)]]
      <3> HIDE DEF seen, k
      <3>1. Append(g[k].rows, i) \in Seq(Nat)
        BY <2>1 DEF Groups
      <3>2. [interest |-> g[k].interest, payment |-> g[k].payment,
             rows |-> Append(g[k].rows, i)] \in Groups
        BY <2>1, <3>1 DEF Groups
      <3>3. [g EXCEPT ![k] = [interest |-> g[k].interest, payment |-> g[k].payment,
                              rows |-> Append(g[k].rows, i)]] \in [Keys -> Groups]
        BY <2>1, <3>2
      <3>4. QED
        BY <2>3, <3>3 DEF Readings
    <2>5. LegacyRow(acc, header, i, row) = LegacyEntry(acc, i, row)
      BY <1>3 DEF LegacyRow, Keyed
    <2>6. CASE row.kind = "disbursement"
      <3>1. LegacyEntry(acc, i, row)
              = IF Opens(acc, row)
                  THEN [seen EXCEPT !.accounts = Append(@, Opened(row))]
                  ELSE [seen EXCEPT !.errors = Append(@, i)]
        BY <2>6 DEF LegacyEntry, Opens, Opened, Flagged, Key
      <3>2. Refused(acc, header, row) <=> ~Opens(acc, row)
        BY <1>3, <2>6 DEF Refused
      <3>3. Grown(g[k], i, row) = [interest |-> g[k].interest, payment |-> g[k].payment,
                                   rows |-> Append(g[k].rows, i)]
        BY <2>6 DEF Grown
      <3> HIDE DEF seen, k
      <3>4. QED
        BY <1>1, <1>3, <2>3, <2>5, <3>1, <3>2, <3>3 DEF k
    <2>7. CASE row.kind = "interest"
      <3>1. LegacyEntry(acc, i, row)
              = IF row.debito = None THEN [seen EXCEPT !.errors = Append(@, i)]
                ELSE [seen EXCEPT !.groups[k].interest = Plus(@, row.debito)]
        BY <2>7 DEF LegacyEntry, Flagged, Key
      <3>2. (Refused(acc, header, row) <=> row.debito = None) /\ ~Opens(acc, row)
        BY <1>3, <2>7 DEF Refused, Opens
      <3>3. Grown(g[k], i, row)
              = [interest |-> IF row.debito # None THEN Plus(g[k].interest, row.debito)
                              ELSE g[k].interest,
                 payment |-> g[k].payment, rows |-> Append(g[k].rows, i)]
        BY <2>7 DEF Grown
      <3>4. CASE row.debito = None
        <4> HIDE DEF seen, k
        <4>1. QED
          BY <1>1, <1>3, <2>3, <2>5, <3>1, <3>2, <3>3, <3>4 DEF k
      <3>5. CASE row.debito # None
        <4> HIDE DEF seen, k
        <4>1. PICK v : v = Plus(g[k].interest, row.debito)
          OBVIOUS
        <4>2. seen.groups[k] = [interest |-> g[k].interest, payment |-> g[k].payment,
                                rows |-> Append(g[k].rows, i)]
          BY <2>1, <2>4
        <4>3. Grown(g[k], i, row) = [interest |-> v, payment |-> g[k].payment, rows |-> Append(g[k].rows, i)]
          BY <3>3, <3>5, <4>1
        <4>4. [seen EXCEPT !.groups[k].interest = v]
                = [accounts |-> seen.accounts, payments |-> seen.payments,
                   errors |-> seen.errors,
                   groups |-> [seen.groups EXCEPT ![k] =
                            [interest |-> v, payment |-> seen.groups[k].payment,
                             rows |-> seen.groups[k].rows]]]
          <5>1. seen \in Readings /\ k \in Keys
            BY <2>1, <2>4
          <5>2. QED
            BY ONLY <5>1, ReadingInterest
        <4>5. [seen.groups EXCEPT ![k] =
                            [interest |-> v, payment |-> seen.groups[k].payment,
                             rows |-> seen.groups[k].rows]]
                = [g EXCEPT ![k] = Grown(g[k], i, row)]
          <5> DEFINE x == [interest |-> g[k].interest, payment |-> g[k].payment,
                           rows |-> Append(g[k].rows, i)]
                     y == Grown(g[k], i, row)
          <5>1. seen.groups = [g EXCEPT ![k] = x]
            BY <2>4
          <5>2. [interest |-> v, payment |-> seen.groups[k].payment, rows |-> seen.groups[k].rows] = y
            BY <4>2, <4>3
          <5> HIDE DEF x, y
          <5>3. [[g EXCEPT ![k] = x] EXCEPT ![k] = y] = [g EXCEPT ![k] = y]
            BY <2>1
          <5>4. [seen.groups EXCEPT ![k] = y] = [g EXCEPT ![k] = y]
            BY <5>1, <5>3
          <5>5. QED
            BY ONLY <5>2, <5>4 DEF y
        <4>6. LegacyEntry(acc, i, row) = [seen EXCEPT !.groups[k].interest = v]
          <5>1. Plus(seen.groups[k].interest, row.debito) = v
            BY <4>1, <4>2
          <5>2. QED
            BY <3>1, <3>5, <5>1
        <4>7. LegacyRow(acc, header, i, row)
                = [accounts |-> acc.accounts, payments |-> acc.payments,
                   errors |-> acc.errors,
                   groups |-> [g EXCEPT ![k] = Grown(g[k], i, row)]]
          <5>1. LegacyRow(acc, header, i, row)
                  = [accounts |-> seen.accounts, payments |-> seen.payments,
                     errors |-> seen.errors,
                     groups |-> [g EXCEPT ![k] = Grown(g[k], i, row)]]
            BY ONLY <2>5, <4>4, <4>5, <4>6
          <5>2. QED
            BY <2>4, <5>1
        <4>8. QED
          BY <1>3, <3>2, <3>5, <4>7 DEF k
      <3>6. QED
        BY <3>4, <3>5
    <2>8. CASE row.kind = "payment"
      <3>1. LegacyEntry(acc, i, row)
              = IF row.credito = None THEN [seen EXCEPT !.errors = Append(@, i)]
                ELSE [seen EXCEPT !.groups[k].payment = Plus(@, row.credito)]
        BY <2>8 DEF LegacyEntry, Flagged, Key
      <3>2. (Refused(acc, header, row) <=> row.credito = None) /\ ~Opens(acc, row)
        BY <1>3, <2>8 DEF Refused, Opens
      <3>3. Grown(g[k], i, row)
              = [interest |-> g[k].interest,
                 payment |-> IF row.credito # None THEN Plus(g[k].payment, row.credito)
                             ELSE g[k].payment,
                 rows |-> Append(g[k].rows, i)]
        BY <2>8 DEF Grown
      <3>4. CASE row.credito = None
        <4> HIDE DEF seen, k
        <4>1. QED
          BY <1>1, <1>3, <2>3, <2>5, <3>1, <3>2, <3>3, <3>4 DEF k
      <3>5. CASE row.credito # None
        <4> HIDE DEF seen, k
        <4>1. PICK v : v = Plus(g[k].payment, row.credito)
          OBVIOUS
        <4>2. seen.groups[k] = [interest |-> g[k].interest, payment |-> g[k].payment,
                                rows |-> Append(g[k].rows, i)]
          BY <2>1, <2>4
        <4>3. Grown(g[k], i, row) = [interest |-> g[k].interest, payment |-> v, rows |-> Append(g[k].rows, i)]
          BY <3>3, <3>5, <4>1
        <4>4. [seen EXCEPT !.groups[k].payment = v]
                = [accounts |-> seen.accounts, payments |-> seen.payments,
                   errors |-> seen.errors,
                   groups |-> [seen.groups EXCEPT ![k] =
                            [interest |-> seen.groups[k].interest, payment |-> v,
                             rows |-> seen.groups[k].rows]]]
          <5>1. seen \in Readings /\ k \in Keys
            BY <2>1, <2>4
          <5>2. QED
            BY ONLY <5>1, ReadingPayment
        <4>5. [seen.groups EXCEPT ![k] =
                            [interest |-> seen.groups[k].interest, payment |-> v,
                             rows |-> seen.groups[k].rows]]
                = [g EXCEPT ![k] = Grown(g[k], i, row)]
          <5> DEFINE x == [interest |-> g[k].interest, payment |-> g[k].payment,
                           rows |-> Append(g[k].rows, i)]
                     y == Grown(g[k], i, row)
          <5>1. seen.groups = [g EXCEPT ![k] = x]
            BY <2>4
          <5>2. [interest |-> seen.groups[k].interest, payment |-> v, rows |-> seen.groups[k].rows] = y
            BY <4>2, <4>3
          <5> HIDE DEF x, y
          <5>3. [[g EXCEPT ![k] = x] EXCEPT ![k] = y] = [g EXCEPT ![k] = y]
            BY <2>1
          <5>4. [seen.groups EXCEPT ![k] = y] = [g EXCEPT ![k] = y]
            BY <5>1, <5>3
          <5>5. QED
            BY ONLY <5>2, <5>4 DEF y
        <4>6. LegacyEntry(acc, i, row) = [seen EXCEPT !.groups[k].payment = v]
          <5>1. Plus(seen.groups[k].payment, row.credito) = v
            BY <4>1, <4>2
          <5>2. QED
            BY <3>1, <3>5, <5>1
        <4>7. LegacyRow(acc, header, i, row)
                = [accounts |-> acc.accounts, payments |-> acc.payments,
                   errors |-> acc.errors,
                   groups |-> [g EXCEPT ![k] = Grown(g[k], i, row)]]
          <5>1. LegacyRow(acc, header, i, row)
                  = [accounts |-> seen.accounts, payments |-> seen.payments,
                     errors |-> seen.errors,
                     groups |-> [g EXCEPT ![k] = Grown(g[k], i, row)]]
            BY ONLY <2>5, <4>4, <4>5, <4>6
          <5>2. QED
            BY <2>4, <5>1
        <4>8. QED
          BY <1>3, <3>2, <3>5, <4>7 DEF k
      <3>6. QED
        BY <3>4, <3>5
    <2>9. CASE row.kind \notin {"disbursement", "interest", "payment"}
      <3>1. LegacyEntry(acc, i, row) = [seen EXCEPT !.errors = Append(@, i)]
        BY <2>9 DEF LegacyEntry, Flagged, Key
      <3>2. Refused(acc, header, row) /\ ~Opens(acc, row)
        BY <1>3, <2>9 DEF Refused, Opens
      <3>3. Grown(g[k], i, row) = [interest |-> g[k].interest, payment |-> g[k].payment,
                                   rows |-> Append(g[k].rows, i)]
        BY <2>9 DEF Grown
      <3> HIDE DEF seen, k
      <3>4. QED
        BY <1>1, <1>3, <2>3, <2>5, <3>1, <3>2, <3>3 DEF k
    <2>10. QED
      BY <2>6, <2>7, <2>8, <2>9
  <1>4. QED
    BY <1>2, <1>3

Touched(g) == {k \in Keys : g[k].rows # <<>>}

(* A reading is one of finitely many rows; a group with an amount has one. *)
Orderly(acc) ==
  /\ acc \in Readings
  /\ IsFiniteSet(Touched(acc.groups))
  /\ \A k \in Keys : acc.groups[k].rows = <<>> =>
       acc.groups[k].payment = None /\ acc.groups[k].interest = None

(* A parser starts with an orderly reading. *)
LEMMA NothingReadOrderly == Orderly(NothingRead)
  <1>1. NothingRead \in Readings
    <2>1. NoGroup \in Groups
      BY DEF NoGroup, Groups, Amounts
    <2>2. [k \in Keys |-> NoGroup] \in [Keys -> Groups]
      BY <2>1
    <2>3. QED
      BY <2>2 DEF NothingRead, Readings
  <1>2. \A k \in Keys : NothingRead.groups[k] = NoGroup
    BY DEF NothingRead
  <1>3. Touched(NothingRead.groups) = {}
    BY <1>2 DEF Touched, NoGroup
  <1>4. QED
    BY <1>1, <1>2, <1>3, FS_EmptySet DEF Orderly, NoGroup

(* A row leaves a group typed, and with a row. *)
LEMMA GrownTyped ==
  ASSUME NEW g \in Groups, NEW i \in Nat, NEW row, LegacyCells(row)
  PROVE  Grown(g, i, row) \in Groups /\ Grown(g, i, row).rows # <<>>
  <1>1. g.interest \in Amounts /\ g.payment \in Amounts /\ g.rows \in Seq(Nat)
    BY DEF Groups
  <1>2. \A a, b \in Amounts : b # None => Plus(a, b) \in Amounts
    BY DEF Plus, Amounts
  <1>3. row.debito \in Amounts /\ row.credito \in Amounts
    BY DEF LegacyCells
  <1>4. Append(g.rows, i) \in Seq(Nat) /\ Append(g.rows, i) # <<>>
    BY <1>1
  <1>5. QED
    BY <1>1, <1>2, <1>3, <1>4 DEF Grown, Groups

(* A legacy row leaves the reading orderly. *)
LEMMA LegacyRowOrderly ==
  ASSUME NEW acc, Orderly(acc), NEW header, NEW i \in Nat, NEW row, LegacyCells(row)
  PROVE  Orderly(LegacyRow(acc, header, i, row))
  <1> DEFINE r == LegacyRow(acc, header, i, row)
             k == Key(row)
             g == acc.groups
  <1>1. acc \in Readings
    BY DEF Orderly
  <1>2. /\ r.payments = acc.payments
        /\ r.errors = IF Refused(acc, header, row) THEN Append(acc.errors, i)
                                                   ELSE acc.errors
        /\ r.accounts = IF Keyed(header, row) /\ Opens(acc, row)
                          THEN Append(acc.accounts, Opened(row)) ELSE acc.accounts
        /\ r.groups = IF Keyed(header, row)
                        THEN [acc.groups EXCEPT ![Key(row)] = Grown(@, i, row)]
                        ELSE acc.groups
        /\ r = [accounts |-> r.accounts, payments |-> r.payments,
                errors |-> r.errors, groups |-> r.groups]
    BY <1>1, LegacyRowFields
  <1> HIDE DEF r
  <1>3. /\ acc.payments \in Seq(PaymentRecords) /\ acc.errors \in Seq(Nat)
        /\ acc.accounts \in Seq(AccountRecords) /\ g \in [Keys -> Groups]
    BY <1>1 DEF Readings
  <1>4. Append(acc.errors, i) \in Seq(Nat)
    BY <1>3
  <1>5. r.errors \in Seq(Nat)
    BY <1>2, <1>3, <1>4
  <1>6. ASSUME Keyed(header, row)
        PROVE  k \in Keys /\ row.ref \in Refs /\ row.date \in Dates
    BY <1>6 DEF Keyed, LegacyCells, Key, Keys
  <1>7. r.accounts \in Seq(AccountRecords)
    <2>1. ASSUME Keyed(header, row), Opens(acc, row)
          PROVE  Append(acc.accounts, Opened(row)) \in Seq(AccountRecords)
      <3>1. row.debito \in Int /\ None \in Amounts
        BY <2>1 DEF Opens, LegacyCells, Amounts
      <3>2. Opened(row) \in AccountRecords
        BY <1>6, <2>1, <3>1 DEF Opened, AccountRecords
      <3>3. QED
        BY <1>3, <3>2
    <2>2. QED
      BY <1>2, <1>3, <2>1
  <1>8. CASE ~Keyed(header, row)
    <2>1. r.groups = g
      BY <1>2, <1>8
    <2>2. r \in Readings
      BY <1>2, <1>3, <1>5, <1>7, <2>1 DEF Readings
    <2>3. Orderly(r)
      BY <2>1, <2>2 DEF Orderly
    <2>4. QED
      BY <2>3 DEF r
  <1>9. CASE Keyed(header, row)
    <2>1. r.groups = [g EXCEPT ![k] = Grown(g[k], i, row)]
      BY <1>2, <1>9
    <2>2. k \in Keys /\ g[k] \in Groups
      BY <1>3, <1>6, <1>9
    <2>3. Grown(g[k], i, row) \in Groups /\ Grown(g[k], i, row).rows # <<>>
      BY <2>2, GrownTyped
    <2> HIDE DEF k, g
    <2>4. r.groups \in [Keys -> Groups]
      BY <1>3, <2>1, <2>2, <2>3
    <2>5. r \in Readings
      BY <1>2, <1>3, <1>5, <1>7, <2>4 DEF Readings
    <2>6. \A l \in Keys : r.groups[l] = IF l = k THEN Grown(g[k], i, row) ELSE g[l]
      BY <1>3, <2>1, <2>2
    <2>7. Touched(r.groups) = Touched(g) \union {k}
      BY <2>2, <2>3, <2>6 DEF Touched
    <2>8. IsFiniteSet(Touched(r.groups))
      <3>1. IsFiniteSet(Touched(g))
        BY DEF Orderly, g
      <3>2. QED
        BY <2>7, <3>1, FS_AddElement
    <2>9. \A l \in Keys : r.groups[l].rows = <<>> =>
            r.groups[l].payment = None /\ r.groups[l].interest = None
      BY <2>3, <2>6 DEF Orderly, g
    <2>10. Orderly(r)
      BY <2>5, <2>8, <2>9 DEF Orderly
    <2>11. QED
      BY <2>10 DEF r
  <1>10. QED
    BY <1>8, <1>9

PaidKeys(g)   == {k \in Keys : g[k].payment # None}
OrphanKeys(g) == {k \in Keys : g[k].payment = None /\ g[k].interest # None}

PaymentOf(g, k) == [ref |-> k[1], date |-> k[2], amount |-> g[k].payment,
                    interest |-> OrZero(g[k].interest)]

(* r is acc after the end of the file, with paid and orphans the order in  *)
(* which the groups are gone through.                                      *)
Ended(r, acc, paid, orphans) ==
  /\ paid \in Bijection(1..Cardinality(PaidKeys(acc.groups)), PaidKeys(acc.groups))
  /\ orphans \in Bijection(1..Cardinality(OrphanKeys(acc.groups)), OrphanKeys(acc.groups))
  /\ r.payments = [i \in 1..Cardinality(PaidKeys(acc.groups))
                      |-> PaymentOf(acc.groups, paid[i])]
  /\ r.errors = acc.errors \o [i \in 1..Cardinality(OrphanKeys(acc.groups))
                                  |-> acc.groups[orphans[i]].rows[1]]
  /\ r.accounts = acc.accounts
  /\ r.groups = NothingRead.groups
  /\ r = [accounts |-> r.accounts, payments |-> r.payments,
          errors |-> r.errors, groups |-> r.groups]

(* The end of a legacy file, field by field: every group with a payment is *)
(* a payment, once.                                                        *)
LEMMA LegacyEndFields ==
  ASSUME NEW acc, Orderly(acc)
  PROVE  \E paid, orphans : Ended(LegacyEnd(acc), acc, paid, orphans)
  <1> DEFINE g == acc.groups
             Before(k, l) == k[1] < l[1] \/ (k[1] = l[1] /\ k[2] <= l[2])
             paid    == SortedBy(PaidKeys(g), Before)
             orphans == SortedBy(OrphanKeys(g), Before)
             n == Cardinality(PaidKeys(g))
             m == Cardinality(OrphanKeys(g))
             pays == [i \in DOMAIN paid |-> PaymentOf(g, paid[i])]
             errs == acc.errors \o [i \in DOMAIN orphans |-> g[orphans[i]].rows[1]]
  <1>1. /\ PaidKeys(g) \in SUBSET Keys /\ OrphanKeys(g) \in SUBSET Keys
        /\ PaidKeys(g) \in SUBSET Touched(g) /\ OrphanKeys(g) \in SUBSET Touched(g)
    BY DEF Orderly, PaidKeys, OrphanKeys, Touched
  <1>2. IsFiniteSet(PaidKeys(g)) /\ IsFiniteSet(OrphanKeys(g))
    <2>1. IsFiniteSet(Touched(g))
      BY DEF Orderly
    <2>2. QED
      BY <1>1, <2>1, FS_Subset
  <1>3. paid \in Bijection(1..n, PaidKeys(g))
    BY <1>1, <1>2, KeysSorted
  <1>4. orphans \in Bijection(1..m, OrphanKeys(g))
    BY <1>1, <1>2, KeysSorted
  <1>5. acc \in Readings
    BY DEF Orderly
  <1>6. LegacyEnd(acc) = [acc EXCEPT !.payments = pays, !.errors = errs,
                                     !.groups = NothingRead.groups]
    BY DEF LegacyEnd, PaidKeys, OrphanKeys, PaymentOf
  <1> HIDE DEF paid, orphans, n, m, Before
  <1>7. DOMAIN paid = 1..n /\ DOMAIN orphans = 1..m
    BY <1>3, <1>4 DEF Bijection, Injection
  <1> HIDE DEF pays, errs
  <1>8. LegacyEnd(acc) = [accounts |-> acc.accounts, payments |-> pays, errors |-> errs,
                          groups |-> NothingRead.groups]
    BY <1>5, <1>6 DEF Readings
  <1>9. /\ pays = [i \in 1..n |-> PaymentOf(g, paid[i])]
        /\ errs = acc.errors \o [i \in 1..m |-> g[orphans[i]].rows[1]]
    BY <1>7 DEF pays, errs
  <1>10. Ended(LegacyEnd(acc), acc, paid, orphans)
    <2>1. PICK r : r = LegacyEnd(acc)
      OBVIOUS
    <2>2. /\ r.accounts = acc.accounts /\ r.payments = pays /\ r.errors = errs
          /\ r.groups = NothingRead.groups
          /\ r = [accounts |-> r.accounts, payments |-> r.payments, errors |-> r.errors,
                  groups |-> r.groups]
      BY <1>8, <2>1
    <2>3. r.payments = [i \in 1..n |-> PaymentOf(g, paid[i])]
          /\ r.errors = acc.errors \o [i \in 1..m |-> g[orphans[i]].rows[1]]
      BY <1>9, <2>2
    <2>4. Ended(r, acc, paid, orphans)
      BY <1>3, <1>4, <2>2, <2>3 DEF n, m, Ended
    <2>5. QED
      BY <2>1, <2>4
  <1>11. QED
    BY <1>10

(* The payments and errors at the end are typed. *)
LEMMA LegacyEndTyped ==
  ASSUME NEW acc, Orderly(acc), acc.payments = <<>>
  PROVE  LegacyEnd(acc) \in Readings
  <1> DEFINE r == LegacyEnd(acc)
             g == acc.groups
             n == Cardinality(PaidKeys(g))
             m == Cardinality(OrphanKeys(g))
  <1>1. PICK paid, orphans : Ended(r, acc, paid, orphans)
    BY LegacyEndFields
  <1>2. /\ paid \in Bijection(1..n, PaidKeys(g)) /\ orphans \in Bijection(1..m, OrphanKeys(g))
        /\ r.payments = [i \in 1..n |-> PaymentOf(g, paid[i])]
        /\ r.errors = acc.errors \o [i \in 1..m |-> g[orphans[i]].rows[1]]
        /\ r.accounts = acc.accounts
        /\ r.groups = NothingRead.groups
        /\ r = [accounts |-> r.accounts, payments |-> r.payments,
                errors |-> r.errors, groups |-> r.groups]
    BY <1>1 DEF Ended
  <1> HIDE DEF r
  <1>3. /\ acc \in Readings /\ g \in [Keys -> Groups] /\ acc.errors \in Seq(Nat)
        /\ acc.accounts \in Seq(AccountRecords)
    BY DEF Orderly, Readings
  <1>4. n \in Nat /\ m \in Nat
    <2>1. PaidKeys(g) \in SUBSET Touched(g) /\ OrphanKeys(g) \in SUBSET Touched(g)
      BY DEF Orderly, PaidKeys, OrphanKeys, Touched
    <2>2. IsFiniteSet(Touched(g))
      BY DEF Orderly
    <2>3. IsFiniteSet(PaidKeys(g)) /\ IsFiniteSet(OrphanKeys(g))
      BY <2>1, <2>2, FS_Subset
    <2>4. QED
      BY <2>3, FS_CardinalityType
  <1>5. /\ \A i \in 1..n : paid[i] \in PaidKeys(g)
        /\ \A i \in 1..m : orphans[i] \in OrphanKeys(g)
    BY <1>2 DEF Bijection, Injection
  <1> HIDE DEF n, m
  <1>6. \A k \in PaidKeys(g) : PaymentOf(g, k) \in PaymentRecords
    <2>1. SUFFICES ASSUME NEW k \in PaidKeys(g) PROVE PaymentOf(g, k) \in PaymentRecords
      OBVIOUS
    <2>2. k \in Keys /\ g[k] \in Groups /\ g[k].payment # None
      BY <1>3 DEF PaidKeys
    <2>3. k[1] \in Refs /\ k[2] \in Dates /\ g[k].payment \in Int
      BY <2>2 DEF Keys, Groups, Amounts
    <2>4. OrZero(g[k].interest) \in Int
      BY <2>2 DEF Groups, Amounts, OrZero
    <2>5. QED
      BY <2>3, <2>4 DEF PaymentOf, PaymentRecords
  <1>7. \A k \in OrphanKeys(g) : g[k].rows[1] \in Nat
    <2>1. SUFFICES ASSUME NEW k \in OrphanKeys(g) PROVE g[k].rows[1] \in Nat
      OBVIOUS
    <2>2. g[k].rows \in Seq(Nat) /\ g[k].rows # <<>>
      BY <1>3 DEF OrphanKeys, Groups, Orderly
    <2>3. QED
      BY SMTT(30), <2>2
  <1>8. [i \in 1..n |-> PaymentOf(g, paid[i])] \in Seq(PaymentRecords)
    <2>1. \A i \in 1..n : PaymentOf(g, paid[i]) \in PaymentRecords
      BY <1>5, <1>6
    <2>2. QED
      BY <1>4, <2>1
  <1>9. [i \in 1..m |-> g[orphans[i]].rows[1]] \in Seq(Nat)
    <2>1. \A i \in 1..m : g[orphans[i]].rows[1] \in Nat
      BY <1>5, <1>7
    <2>2. QED
      BY <1>4, <2>1
  <1>10. r.errors \in Seq(Nat)
    <2> DEFINE t == [i \in 1..m |-> g[orphans[i]].rows[1]]
    <2>1. t \in Seq(Nat) /\ r.errors = acc.errors \o t
      BY <1>2, <1>9
    <2> HIDE DEF t
    <2>2. QED
      BY <1>3, <2>1
  <1>11. NothingRead.groups \in [Keys -> Groups]
    BY NothingReadOrderly DEF Orderly, Readings
  <1>12. r.payments \in Seq(PaymentRecords)
    BY <1>2, <1>8
  <1>13. r \in Readings
    BY <1>2, <1>3, <1>10, <1>11, <1>12 DEF Readings
  <1>14. QED
    BY <1>13 DEF r

NativeAccount(row) ==
  [ref |-> row.ref, borrow_amount |-> row.account.borrow_amount,
   start_date |-> row.account.start_date, rate |-> row.account.rate,
   name |-> SuggestedName(row.account.name)]

NativePayment(row) ==
  [ref |-> row.ref, date |-> row.date, amount |-> row.amount,
   interest |-> OrZero(row.interest)]

NoAccount(row) == row.ref = None \/ row.account = None
NotPaid(row)   == row.ref = None \/ row.amount = None \/ row.date \in {Blank, None}

(* The account of a native row, field by field. *)
LEMMA WithAccountFields ==
  ASSUME NEW acc \in Readings, NEW i \in Nat, NEW row, NativeCells(row)
  PROVE  LET r == WithAccount(acc, i, row)
         IN  /\ r.payments = acc.payments /\ r.groups = acc.groups
             /\ r.errors = IF NoAccount(row) THEN Append(acc.errors, i) ELSE acc.errors
             /\ r.accounts = IF ~NoAccount(row) /\ row.ref \notin RefsOf(acc.accounts)
                               THEN Append(acc.accounts, NativeAccount(row))
                               ELSE acc.accounts
             /\ r \in Readings
  <1> DEFINE r == WithAccount(acc, i, row)
  <1>1. /\ acc.payments \in Seq(PaymentRecords) /\ acc.errors \in Seq(Nat)
        /\ acc.accounts \in Seq(AccountRecords) /\ acc.groups \in [Keys -> Groups]
    BY DEF Readings
  <1>2. CASE NoAccount(row)
    <2>1. r = [acc EXCEPT !.errors = Append(acc.errors, i)]
      BY <1>2 DEF WithAccount, NoAccount, Flagged
    <2>2. r = [accounts |-> acc.accounts, payments |-> acc.payments,
               errors |-> Append(acc.errors, i), groups |-> acc.groups]
      BY <2>1 DEF Readings
    <2>3. Append(acc.errors, i) \in Seq(Nat)
      BY <1>1
    <2> HIDE DEF r
    <2>4. r \in Readings
      BY <1>1, <2>2, <2>3 DEF Readings
    <2>5. QED
      BY <1>2, <2>2, <2>4 DEF r
  <1>3. CASE ~NoAccount(row) /\ row.ref \in RefsOf(acc.accounts)
    BY <1>3 DEF WithAccount, NoAccount
  <1>4. CASE ~NoAccount(row) /\ row.ref \notin RefsOf(acc.accounts)
    <2>1. r = [acc EXCEPT !.accounts = Append(acc.accounts, NativeAccount(row))]
      BY <1>4 DEF WithAccount, NoAccount, NativeAccount
    <2>2. r = [accounts |-> Append(acc.accounts, NativeAccount(row)),
               payments |-> acc.payments, errors |-> acc.errors, groups |-> acc.groups]
      BY <2>1 DEF Readings
    <2>3. NativeAccount(row) \in AccountRecords
      <3>1. row.ref \in Refs /\ row.account \in AccountCellSet
        BY <1>4 DEF NoAccount, NativeCells
      <3>2. row.account.name \in Seq(Letters)
        BY <3>1 DEF AccountCellSet
      <3>3. restore_cell(row.account.name) \in Seq(Letters)
        <4>1. PICK name \in Seq(Letters) : name = row.account.name
          BY <3>2
        <4>2. restore_cell(name) \in Seq(Letters)
          <5>1. Len(name) >= 2 => Tail(name) \in Seq(Letters)
            OBVIOUS
          <5>2. QED
            BY <5>1 DEF restore_cell
        <4>3. QED
          BY <4>1, <4>2
      <3>4. row.account.rate \in Amounts /\ row.account.borrow_amount \in Int
            /\ row.account.start_date \in Dates
        BY <3>1 DEF AccountCellSet, Amounts
      <3>5. SuggestedName(row.account.name) \in Seq(Letters) \union {None}
        BY <3>3 DEF SuggestedName
      <3>6. QED
        BY <3>1, <3>4, <3>5 DEF NativeAccount, AccountRecords
    <2>4. Append(acc.accounts, NativeAccount(row)) \in Seq(AccountRecords)
      BY <1>1, <2>3
    <2> HIDE DEF r
    <2>5. r \in Readings
      BY <1>1, <2>2, <2>4 DEF Readings
    <2>6. QED
      BY <1>4, <2>2, <2>5 DEF r
  <1>5. QED
    BY <1>2, <1>3, <1>4

(* Its payment. *)
LEMMA WithPaymentFields ==
  ASSUME NEW acc \in Readings, NEW shape, NEW i \in Nat, NEW row, NativeCells(row)
  PROVE  LET r     == WithPayment(acc, shape, i, row)
             empty == shape = "full" /\ row.date = Blank
         IN  /\ r.accounts = acc.accounts /\ r.groups = acc.groups
             /\ r.errors = IF ~empty /\ NotPaid(row) THEN Append(acc.errors, i)
                                                     ELSE acc.errors
             /\ r.payments = IF ~empty /\ ~NotPaid(row)
                               THEN Append(acc.payments, NativePayment(row))
                               ELSE acc.payments
             /\ r \in Readings
  <1> DEFINE r == WithPayment(acc, shape, i, row)
             empty == shape = "full" /\ row.date = Blank
  <1>1. /\ acc.payments \in Seq(PaymentRecords) /\ acc.errors \in Seq(Nat)
        /\ acc.accounts \in Seq(AccountRecords) /\ acc.groups \in [Keys -> Groups]
    BY DEF Readings
  <1>2. CASE empty
    BY <1>2 DEF WithPayment
  <1>3. CASE ~empty /\ NotPaid(row)
    <2>1. r = [acc EXCEPT !.errors = Append(acc.errors, i)]
      BY <1>3 DEF WithPayment, NotPaid, Flagged
    <2>2. r = [accounts |-> acc.accounts, payments |-> acc.payments,
               errors |-> Append(acc.errors, i), groups |-> acc.groups]
      BY <2>1 DEF Readings
    <2>3. Append(acc.errors, i) \in Seq(Nat)
      BY <1>1
    <2> HIDE DEF r
    <2>4. r \in Readings
      BY <1>1, <2>2, <2>3 DEF Readings
    <2>5. QED
      BY <1>3, <2>2, <2>4 DEF r
  <1>4. CASE ~empty /\ ~NotPaid(row)
    <2>1. r = [acc EXCEPT !.payments = Append(acc.payments, NativePayment(row))]
      BY <1>4 DEF WithPayment, NotPaid, NativePayment
    <2>2. r = [accounts |-> acc.accounts,
               payments |-> Append(acc.payments, NativePayment(row)),
               errors |-> acc.errors, groups |-> acc.groups]
      BY <2>1 DEF Readings
    <2>3. NativePayment(row) \in PaymentRecords
      <3>1. row.ref \in Refs /\ row.date \in Dates /\ row.amount \in Int
        BY <1>4 DEF NotPaid, NativeCells, Amounts
      <3>2. OrZero(row.interest) \in Int
        BY DEF NativeCells, Amounts, OrZero
      <3>3. QED
        BY <3>1, <3>2 DEF NativePayment, PaymentRecords
    <2>4. Append(acc.payments, NativePayment(row)) \in Seq(PaymentRecords)
      BY <1>1, <2>3
    <2> HIDE DEF r
    <2>5. r \in Readings
      BY <1>1, <2>2, <2>4 DEF Readings
    <2>6. QED
      BY <1>4, <2>2, <2>5 DEF r
  <1>5. QED
    BY <1>2, <1>3, <1>4

(* A native row leaves a typed reading. *)
LEMMA NativeRowTyped ==
  ASSUME NEW acc \in Readings, NEW shape, NEW i \in Nat, NEW row, NativeCells(row)
  PROVE  NativeRow(acc, shape, i, row) \in Readings
  <1> DEFINE both == IF shape \in {"full", "accounts"} THEN WithAccount(acc, i, row) ELSE acc
  <1>1. both \in Readings
    BY WithAccountFields
  <1> HIDE DEF both
  <1>2. WithPayment(both, shape, i, row) \in Readings
    BY <1>1, WithPaymentFields
  <1>3. QED
    BY <1>1, <1>2 DEF NativeRow, both

PaymentCells == [date : Dates, amount : Int, interest : Int]

(* An element of a sequence. *)
LEMMA ElementOf ==
  ASSUME NEW S, NEW s \in Seq(S), NEW j \in DOMAIN s
  PROVE  s[j] \in S /\ j \in Nat /\ j \in 1..Len(s)
  OBVIOUS

(* The payments of a ledger that is exported. *)
LEMMA PaymentsOfLedger ==
  ASSUME NEW l \in ExportedLedger
  PROVE  /\ l.payments \in Seq(PaymentCells)
         /\ \A j \in DOMAIN l.payments : l.payments[j] \in PaymentCells /\ j \in Nat
  <1>1. l.payments \in Seq(PaymentCells)
    BY DEF ExportedLedger, PaymentCells
  <1>2. QED
    BY <1>1, ElementOf

(* Every row of an export has cells that can be read. *)
LEMMA AccountCellsTyped ==
  ASSUME NEW l \in ExportedLedger
  PROVE  AccountCells(l) \in AccountCellSet
  <1>1. PICK name \in Seq(Letters) : name = l.name
    BY DEF ExportedLedger
  <1>2. sanitize_cell(name) \in Seq(Letters)
    <2>1. <<"'">> \in Seq(Letters)
      <3>1. \A c \in Letters : <<c>> \in Seq(Letters)
        OBVIOUS
      <3>2. "'" \in Letters
        BY ParsersAssumption
      <3>3. QED
        BY ONLY <3>1, <3>2
    <2>2. <<"'">> \o name \in Seq(Letters)
      BY <2>1
    <2>3. QED
      BY <2>2 DEF sanitize_cell
  <1>3. l.borrow_amount \in Int /\ l.rate \in Int /\ l.start_date \in Dates
    BY DEF ExportedLedger
  <1>4. QED
    BY <1>1, <1>2, <1>3 DEF AccountCells, AccountCellSet

(* A row of an export can be read. *)
LEMMA ExportRowTyped ==
  ASSUME NEW l \in ExportedLedger, NEW account \in AccountCellSet \union {None}
  PROVE  /\ NativeCells(ExportRow(l, account, NoPayment))
         /\ \A j \in DOMAIN l.payments : NativeCells(ExportRow(l, account, l.payments[j]))
  <1>1. l.ref \in Refs
    BY DEF ExportedLedger
  <1>2. NativeCells(ExportRow(l, account, NoPayment))
    BY <1>1 DEF ExportRow, NoPayment, NativeCells, Amounts
  <1>3. ASSUME NEW j \in DOMAIN l.payments
        PROVE  NativeCells(ExportRow(l, account, l.payments[j]))
    <2>1. l.payments[j] \in PaymentCells
      BY PaymentsOfLedger
    <2>2. QED
      BY <1>1, <2>1 DEF ExportRow, NativeCells, Amounts, PaymentCells
  <1>4. QED
    BY <1>2, <1>3

(* The payments of ledgers, and their order in the export. *)
Cells(ledgers) == UNION {{i} \X DOMAIN ledgers[i].payments : i \in DOMAIN ledgers}

Entry(ledgers, p) == ledgers[p[1]].payments[p[2]]

(* A place is a ledger and one of its payments. *)
LEMMA CellsOf ==
  ASSUME NEW ledgers \in Seq(ExportedLedger), NEW p
  PROVE  p \in Cells(ledgers) <=>
           \E i \in DOMAIN ledgers : \E j \in DOMAIN ledgers[i].payments : p = <<i, j>>
  BY DEF Cells

(* There are finitely many places. *)
LEMMA CellsFinite ==
  ASSUME NEW ledgers \in Seq(ExportedLedger)
  PROVE  IsFiniteSet(Cells(ledgers))
  <1> DEFINE T == {{i} \X DOMAIN ledgers[i].payments : i \in DOMAIN ledgers}
             f == [i \in DOMAIN ledgers |-> {i} \X DOMAIN ledgers[i].payments]
  <1>1. IsFiniteSet(DOMAIN ledgers)
    <2>1. DOMAIN ledgers = 1..Len(ledgers) /\ Len(ledgers) \in Nat
      OBVIOUS
    <2>2. QED
      BY <2>1, FS_Interval
  <1>2. IsFiniteSet(T)
    <2>1. f \in Surjection(DOMAIN ledgers, T)
      BY DEF Surjection
    <2>2. QED
      BY <1>1, <2>1, FS_Surjection
  <1>3. ASSUME NEW i \in DOMAIN ledgers
        PROVE  IsFiniteSet({i} \X DOMAIN ledgers[i].payments)
    <2>1. ledgers[i] \in ExportedLedger
      OBVIOUS
    <2>2. DOMAIN ledgers[i].payments = 1..Len(ledgers[i].payments)
          /\ Len(ledgers[i].payments) \in Nat
      BY <2>1 DEF ExportedLedger
    <2>3. IsFiniteSet(DOMAIN ledgers[i].payments)
      BY <2>2, FS_Interval
    <2>4. IsFiniteSet({i})
      BY FS_Singleton
    <2>5. QED
      BY <2>3, <2>4, FS_Product
  <1>4. \A S \in T : IsFiniteSet(S)
    BY <1>3
  <1>5. QED
    BY <1>2, <1>4, FS_UNION DEF Cells

(* The rows of payments.csv are those payments in some order. *)
LEMMA PaymentRows ==
  ASSUME NEW ledgers \in Seq(ExportedLedger)
  PROVE  LET n == Cardinality(Cells(ledgers))
         IN  \E ordered \in Bijection(1..n, Cells(ledgers)) :
               export_payments_csv(ledgers)
                 = [m \in 1..n |-> ExportRow(ledgers[ordered[m][1]], None,
                                             Entry(ledgers, ordered[m]))]
  <1> DEFINE S == Cells(ledgers)
             n == Cardinality(S)
             Payment(p)   == ledgers[p[1]].payments[p[2]]
             Before(p, q) == \/ Payment(p).date < Payment(q).date
                             \/ Payment(p).date = Payment(q).date /\ p[1] < q[1]
                             \/ Payment(p).date = Payment(q).date /\ p[1] = q[1]
                                /\ p[2] <= q[2]
             ordered == SortedBy(S, Before)
             R == {pq \in S \X S : Before(pq[1], pq[2])}
  <1>1. \A p \in S : /\ p = <<p[1], p[2]>> /\ p[1] \in Nat /\ p[2] \in Nat
                     /\ Payment(p).date \in Nat
    <2>1. SUFFICES ASSUME NEW p \in S
                   PROVE  /\ p = <<p[1], p[2]>> /\ p[1] \in Nat /\ p[2] \in Nat
                          /\ Payment(p).date \in Nat
      OBVIOUS
    <2>2. PICK i \in DOMAIN ledgers : \E j \in DOMAIN ledgers[i].payments : p = <<i, j>>
      BY CellsOf
    <2>3. PICK j \in DOMAIN ledgers[i].payments : p = <<i, j>>
      BY <2>2
    <2>4. i \in Nat /\ ledgers[i] \in ExportedLedger
      OBVIOUS
    <2>5. j \in Nat /\ ledgers[i].payments[j] \in PaymentCells
      BY <2>4, PaymentsOfLedger
    <2>6. ledgers[i].payments[j].date \in Nat
      BY <2>5, ParsersAssumption DEF PaymentCells
    <2>7. QED
      BY <2>3, <2>4, <2>5, <2>6
  <1>2. IsFiniteSet(S)
    BY CellsFinite
  <1> HIDE DEF S
  <1> DEFINE d == [p \in S |-> Payment(p).date]
  <1>3. \A p \in S : d[p] \in Nat /\ d[p] = Payment(p).date
    BY <1>1
  <1>4. \A p, q \in S : <<p, q>> \in R <=> Before(p, q)
    OBVIOUS
  <1>5. \A p, q \in S : Before(p, q) <=> \/ d[p] < d[q]
                                         \/ d[p] = d[q] /\ p[1] < q[1]
                                         \/ d[p] = d[q] /\ p[1] = q[1] /\ p[2] <= q[2]
    BY <1>3
  <1> HIDE DEF Before, Payment, d, R
  <1>6. Orders(R, S)
    <2>1. ASSUME NEW x \in S, NEW y \in S
          PROVE  x = y \/ <<x, y>> \in R \/ <<y, x>> \in R
      <3>1. x[1] = y[1] /\ x[2] = y[2] => x = y
        BY <1>1
      <3>2. d[x] \in Nat /\ d[y] \in Nat /\ x[1] \in Nat /\ y[1] \in Nat
            /\ x[2] \in Nat /\ y[2] \in Nat
        BY <1>1, <1>3
      <3>3. (x[1] = y[1] /\ x[2] = y[2]) \/ Before(x, y) \/ Before(y, x)
        BY <1>5, <3>2
      <3>4. QED
        BY <1>4, <3>1, <3>3
    <2>2. ASSUME NEW x \in S, NEW y \in S, NEW z \in S, <<x, y>> \in R, <<y, z>> \in R
          PROVE  <<x, z>> \in R
      <3>1. /\ d[x] \in Nat /\ d[y] \in Nat /\ d[z] \in Nat
            /\ x[1] \in Nat /\ y[1] \in Nat /\ z[1] \in Nat
            /\ x[2] \in Nat /\ y[2] \in Nat /\ z[2] \in Nat
        BY <1>1, <1>3
      <3>2. Before(x, y) /\ Before(y, z)
        BY <1>4, <2>2
      <3>3. /\ \/ d[x] < d[y]
               \/ d[x] = d[y] /\ x[1] < y[1]
               \/ d[x] = d[y] /\ x[1] = y[1] /\ x[2] <= y[2]
            /\ \/ d[y] < d[z]
               \/ d[y] = d[z] /\ y[1] < z[1]
               \/ d[y] = d[z] /\ y[1] = z[1] /\ y[2] <= z[2]
        BY <1>5, <3>2
      <3>4. \/ d[x] < d[z]
            \/ d[x] = d[z] /\ x[1] < z[1]
            \/ d[x] = d[z] /\ x[1] = z[1] /\ x[2] <= z[2]
        BY ONLY SMTT(30), <3>1, <3>3
      <3>5. Before(x, z)
        BY <1>5, <3>4
      <3>6. QED
        BY <1>4, <3>5
    <2>3. QED
      BY <2>1, <2>2 DEF Orders
  <1>7. PICK s : Lists(s, R, S)
    BY <1>2, <1>6, ListExists
  <1>8. /\ s \in Bijection(1..n, S) /\ DOMAIN s = 1..n
        /\ \A i \in DOMAIN s : s[i] \in S
        /\ \A i, j \in DOMAIN s : i < j => <<s[i], s[j]>> \in R
    BY <1>7 DEF Lists, Bijection, Injection
  <1>9. \A i, j \in DOMAIN s : i < j => Before(s[i], s[j])
    BY <1>4, <1>8
  <1>10. ordered \in Bijection(1..n, S) /\ DOMAIN ordered = 1..n
    <2>1. ordered \in Bijection(1..n, S)
      BY <1>8, <1>9 DEF SortedBy
    <2>2. QED
      BY <2>1 DEF Bijection, Injection
  <1>11. export_payments_csv(ledgers)
           = [m \in DOMAIN ordered |-> ExportRow(ledgers[ordered[m][1]], None,
                                                 Payment(ordered[m]))]
    BY DEF export_payments_csv, S, Before, Payment, Cells
  <1> HIDE DEF ordered
  <1>12. export_payments_csv(ledgers)
           = [m \in 1..n |-> ExportRow(ledgers[ordered[m][1]], None,
                                       Entry(ledgers, ordered[m]))]
    BY <1>10, <1>11 DEF Payment, Entry
  <1>13. QED
    BY <1>10, <1>12 DEF S

Shapes == {"accounts", "payments", "full"}

(* An export is a sequence of rows that can be read. *)
LEMMA ExportTyped ==
  ASSUME NEW of \in Ledgers, of # <<>>, NEW shape \in Shapes
  PROVE  /\ \E n \in Nat : DOMAIN Export(shape, of) = 1..n
         /\ \A j \in DOMAIN Export(shape, of) : NativeCells(Export(shape, of)[j])
  <1>1. of \in Seq(ExportedLedger) /\ of[1] \in ExportedLedger
    BY FilesAssumption
  <1>2. DOMAIN of = 1..Len(of) /\ Len(of) \in Nat /\ \A i \in DOMAIN of : of[i] \in ExportedLedger
    BY <1>1, ElementOf
  <1>3. CASE shape = "accounts"
    <2>1. Export(shape, of) = [i \in DOMAIN of |->
                                 ExportRow(of[i], AccountCells(of[i]), NoPayment)]
      BY <1>3 DEF Export, export_accounts_csv
    <2>2. \A i \in DOMAIN of : NativeCells(ExportRow(of[i], AccountCells(of[i]), NoPayment))
      BY <1>2, AccountCellsTyped, ExportRowTyped
    <2>3. QED
      BY <1>2, <2>1, <2>2
  <1>4. CASE shape = "payments"
    <2> DEFINE n == Cardinality(Cells(of))
    <2>1. PICK ordered \in Bijection(1..n, Cells(of)) :
            export_payments_csv(of)
              = [m \in 1..n |-> ExportRow(of[ordered[m][1]], None, Entry(of, ordered[m]))]
      BY <1>1, PaymentRows
    <2>2. n \in Nat
      BY <1>1, CellsFinite, FS_CardinalityType
    <2> HIDE DEF n
    <2>3. ASSUME NEW m \in 1..n
          PROVE  NativeCells(ExportRow(of[ordered[m][1]], None, Entry(of, ordered[m])))
      <3>1. ordered[m] \in Cells(of)
        BY DEF Bijection, Injection
      <3>2. PICK i \in DOMAIN of : \E j \in DOMAIN of[i].payments : ordered[m] = <<i, j>>
        BY <1>1, <3>1, CellsOf
      <3>3. PICK j \in DOMAIN of[i].payments : ordered[m] = <<i, j>>
        BY <3>2
      <3>4. Entry(of, ordered[m]) = of[i].payments[j] /\ ordered[m][1] = i
        BY <3>3 DEF Entry
      <3>5. NativeCells(ExportRow(of[i], None, of[i].payments[j]))
        BY <1>2, ExportRowTyped
      <3>6. QED
        BY <3>4, <3>5
    <2>4. Export(shape, of) = export_payments_csv(of)
      BY <1>4 DEF Export
    <2>5. QED
      BY <2>1, <2>2, <2>3, <2>4
  <1>5. CASE shape = "full"
    <2>1. Export(shape, of) = export_account_full_csv(of[1])
      BY <1>5 DEF Export
    <2>2. AccountCells(of[1]) \in AccountCellSet \union {None}
      BY <1>1, AccountCellsTyped
    <2>3. CASE of[1].payments = <<>>
      <3>1. Export(shape, of) = <<ExportRow(of[1], AccountCells(of[1]), NoPayment)>>
        BY <2>1, <2>3 DEF export_account_full_csv
      <3>2. NativeCells(ExportRow(of[1], AccountCells(of[1]), NoPayment))
        BY <1>1, <2>2, ExportRowTyped
      <3>3. DOMAIN Export(shape, of) = 1..1
        BY <3>1
      <3>4. \A j \in DOMAIN Export(shape, of) :
              Export(shape, of)[j] = ExportRow(of[1], AccountCells(of[1]), NoPayment)
        BY <3>1
      <3>5. QED
        BY <3>2, <3>3, <3>4
    <2>4. CASE of[1].payments # <<>>
      <3>1. Export(shape, of) = [j \in DOMAIN of[1].payments |->
                                   ExportRow(of[1], AccountCells(of[1]), of[1].payments[j])]
        BY <2>1, <2>4 DEF export_account_full_csv
      <3>2. \A j \in DOMAIN of[1].payments :
              NativeCells(ExportRow(of[1], AccountCells(of[1]), of[1].payments[j]))
        BY <1>1, <2>2, ExportRowTyped
      <3>3. of[1].payments \in Seq(PaymentCells)
        BY <1>1, PaymentsOfLedger
      <3>4. DOMAIN of[1].payments = 1..Len(of[1].payments) /\ Len(of[1].payments) \in Nat
        BY <3>3
      <3>5. QED
        BY <3>1, <3>2, <3>4
    <2>5. QED
      BY <2>3, <2>4
  <1>6. QED
    BY <1>3, <1>4, <1>5 DEF Shapes

-----------------------------------------------------------------------------
(* The upload. *)

(* Where an upload may stand before and after it is answered. *)
UploadGood(u) ==
  /\ \E n \in Sizes : u.size = n + Framing
  /\ u.received \in 0..u.size
  /\ u.exceeded \in BOOLEAN
  /\ IF u.exceeded THEN u.received > Limit /\ u.given \in 0..Limit
                   ELSE u.given = u.received /\ u.given \in 0..Limit
  /\ u.sent \in Seq({400, 413})
  /\ u = [size |-> u.size, received |-> u.received, given |-> u.given,
          exceeded |-> u.exceeded, sent |-> u.sent]

Answered(u) ==
  \/ u.sent = <<413>> /\ u.size - Framing > FileLimit
  \/ u.sent = <<400>> /\ ~(u.size - Framing > FileLimit)

UploadInv ==
  /\ phase \in {"upload", "refused", "parse", "batch"}
  /\ phase \in {"upload", "refused"} => UploadGood(upload)
  /\ phase = "upload" => upload.sent = <<>>
  /\ phase = "refused" => Answered(upload)
  /\ phase \in {"parse", "batch"} => upload = Arrived

(* The limits are natural numbers, and that of the body is the larger one. *)
LEMMA LimitTyped == Limit \in Nat /\ FileLimit \in Nat /\ Framing \in Nat
                    /\ Framing <= Overhead /\ Overhead \in Nat /\ Limit = FileLimit + Overhead
  BY ImportsAssumption DEF Limit

(* An answer with the right code. *)
LEMMA AnswerStep ==
  ASSUME UploadInv, phase = "upload", NEW code \in {400, 413},
         (code = 413) <=> (upload.size - Framing > FileLimit), Answer(code)
  PROVE  UploadInv'
  <1>1. UploadGood(upload) /\ upload.sent = <<>>
    BY DEF UploadInv
  <1>2. upload = [size |-> upload.size, received |-> upload.received, given |-> upload.given,
                  exceeded |-> upload.exceeded, sent |-> upload.sent]
    BY <1>1 DEF UploadGood
  <1>3. upload' = [upload EXCEPT !.sent = Append(upload.sent, code)] /\ phase' = "refused"
    BY DEF Answer
  <1>4. Append(upload.sent, code) = <<code>>
    BY <1>1
  <1>5. /\ upload'.size = upload.size /\ upload'.received = upload.received
        /\ upload'.given = upload.given /\ upload'.exceeded = upload.exceeded
        /\ upload'.sent = <<code>>
        /\ upload' = [size |-> upload'.size, received |-> upload'.received,
                      given |-> upload'.given, exceeded |-> upload'.exceeded,
                      sent |-> upload'.sent]
    BY <1>2, <1>3, <1>4
  <1>6. <<code>> \in Seq({400, 413})
    OBVIOUS
  <1>7. UploadGood(upload')
    BY <1>1, <1>5, <1>6 DEF UploadGood
  <1>8. Answered(upload')
    BY <1>5 DEF Answered
  <1>9. QED
    BY <1>3, <1>7, <1>8 DEF UploadInv

(* A chunk never takes what the application was given over the limit. *)
LEMMA ReceiveStep ==
  ASSUME UploadInv, Receive
  PROVE  UploadInv'
  <1> DEFINE n == Min({Chunk, upload.size - upload.received})
             over == upload.received + n > Limit
  <1>1. /\ phase = "upload" /\ ~upload.exceeded /\ upload.received < upload.size
        /\ upload' = [upload EXCEPT !.received = upload.received + n, !.exceeded = over,
                        !.given = IF over THEN upload.given ELSE upload.given + n]
        /\ phase' = phase
    BY DEF Receive
  <1>2. UploadGood(upload) /\ upload.sent = <<>>
    BY <1>1 DEF UploadInv
  <1>3. upload.size \in Nat /\ upload.received \in Nat
    <2>1. PICK s \in Sizes : upload.size = s + Framing
      BY <1>2 DEF UploadGood
    <2>2. QED
      BY <1>2, <2>1, LimitTyped, ImportsAssumption DEF UploadGood
  <1>4. n \in Nat /\ n > 0 /\ n <= upload.size - upload.received
    <2> DEFINE d == upload.size - upload.received
    <2>1. d \in Nat /\ d > 0 /\ Chunk \in Nat /\ Chunk > 0
      BY <1>1, <1>3, ImportsAssumption
    <2> HIDE DEF d
    <2>2. \E x \in {Chunk, d} : \A y \in {Chunk, d} : x <= y
      BY <2>1
    <2>3. Min({Chunk, d}) \in {Chunk, d} /\ \A y \in {Chunk, d} : Min({Chunk, d}) <= y
      BY <2>2 DEF Min
    <2>4. Min({Chunk, d}) \in Nat /\ Min({Chunk, d}) > 0 /\ Min({Chunk, d}) <= d
      BY <2>1, <2>3
    <2>5. QED
      BY <2>4 DEF d
  <1> HIDE DEF n
  <1>5. upload = [size |-> upload.size, received |-> upload.received, given |-> upload.given,
                  exceeded |-> upload.exceeded, sent |-> upload.sent]
    BY <1>2 DEF UploadGood
  <1>6. /\ upload'.size = upload.size /\ upload'.received = upload.received + n
        /\ upload'.given = (IF over THEN upload.given ELSE upload.given + n)
        /\ upload'.exceeded = over /\ upload'.sent = upload.sent
        /\ upload' = [size |-> upload'.size, received |-> upload'.received,
                      given |-> upload'.given, exceeded |-> upload'.exceeded,
                      sent |-> upload'.sent]
    BY <1>1, <1>5
  <1>7. upload.given = upload.received /\ upload.given \in 0..Limit
    BY <1>1, <1>2 DEF UploadGood
  <1>8. UploadGood(upload')
    <2>1. \E s \in Sizes : upload'.size = s + Framing
      BY <1>2, <1>6 DEF UploadGood
    <2>2. upload'.received \in 0..upload'.size
      BY <1>3, <1>4, <1>6
    <2>3. upload'.exceeded \in BOOLEAN
      BY <1>6
    <2>4. IF upload'.exceeded THEN upload'.received > Limit /\ upload'.given \in 0..Limit
          ELSE upload'.given = upload'.received /\ upload'.given \in 0..Limit
      <3>1. CASE over
        <4>1. upload'.exceeded /\ upload'.given = upload.given
              /\ upload'.received = upload.received + n
          BY <1>6, <3>1
        <4>2. upload.received + n > Limit
          BY <3>1
        <4>3. QED
          BY <1>7, <4>1, <4>2
      <3>2. CASE ~over
        <4>1. ~upload'.exceeded /\ upload'.given = upload.given + n
              /\ upload'.received = upload.received + n
          BY <1>6, <3>2
        <4>2. ~(upload.received + n > Limit)
          BY <3>2
        <4>3. QED
          BY <1>3, <1>4, <1>7, <4>1, <4>2, LimitTyped
      <3>3. QED
        BY <3>1, <3>2
    <2>5. upload'.sent \in Seq({400, 413})
      BY <1>2, <1>6 DEF UploadGood
    <2>6. QED
      BY <1>6, <2>1, <2>2, <2>3, <2>4, <2>5 DEF UploadGood
  <1>9. QED
    BY <1>1, <1>2, <1>6, <1>8 DEF UploadInv

(* Every step keeps what is known of the upload. *)
LEMMA UploadHolds ==
  UploadInv /\ [Next]_vars => UploadInv'
  <1> SUFFICES ASSUME UploadInv, [Next]_vars PROVE UploadInv'
    OBVIOUS
  <1>1. ASSUME phase = "upload"
        PROVE  /\ upload.size \in Nat /\ upload.received \in 0..upload.size
               /\ upload.exceeded => upload.size > Limit
    <2>1. UploadGood(upload)
      BY <1>1 DEF UploadInv
    <2>2. PICK s \in Sizes : upload.size = s + Framing
      BY <2>1 DEF UploadGood
    <2>3. upload.size \in Nat
      BY <2>2, LimitTyped, ImportsAssumption
    <2>4. QED
      BY <2>1, <2>3, LimitTyped DEF UploadGood
  <1>2. CASE RefuseDeclared
    <2>1. phase = "upload" /\ upload.size > Limit /\ Answer(413)
      BY <1>2 DEF RefuseDeclared
    <2>2. upload.size - Framing > FileLimit
      BY <1>1, <2>1, LimitTyped
    <2>3. QED
      BY <2>1, <2>2, AnswerStep
  <1>3. CASE Receive
    BY <1>3, ReceiveStep
  <1>4. CASE Truncated
    <2>1. phase = "upload" /\ upload.exceeded /\ Answer(413)
      BY <1>4 DEF Truncated
    <2>2. upload.size - Framing > FileLimit
      BY <1>1, <2>1, LimitTyped
    <2>3. QED
      BY <2>1, <2>2, AnswerStep
  <1>5. ASSUME NEW format, NEW shape, NEW of, Accept(format, shape, of)
        PROVE  UploadInv'
    <2>1. phase = "upload" /\ upload.size \in Nat
      BY <1>1, <1>5 DEF Accept
    <2>2. CASE FileSize > FileLimit /\ Answer(413)
      BY <2>1, <2>2, AnswerStep DEF FileSize
    <2>3. CASE FileSize = 0 /\ Answer(400)
      <3>1. ~(upload.size - Framing > FileLimit)
        BY <2>3, LimitTyped DEF FileSize
      <3>2. QED
        BY <2>1, <2>3, <3>1, AnswerStep
    <2>4. CASE FileSize \in 1..FileLimit /\ Answer(400)
      <3>1. ~(upload.size - Framing > FileLimit)
        BY <2>4, LimitTyped DEF FileSize
      <3>2. QED
        BY <2>1, <2>4, <3>1, AnswerStep
    <2>5. CASE phase' = "parse" /\ upload' = Arrived
      BY <2>5 DEF UploadInv
    <2>6. QED
      BY <1>5, <2>2, <2>3, <2>4, <2>5 DEF Accept
  <1>6. CASE ReadRow
    BY <1>6 DEF ReadRow, UploadInv
  <1>7. CASE EndOfFile
    BY <1>7 DEF EndOfFile, UploadInv
  <1>8. CASE \E w \in Workers : \/ \E map \in Mappings : commit(w, map)
                                \/ ImportRef(w) \/ EndCommit(w) \/ Rollback(w)
    BY <1>8 DEF commit, Begin, ImportRef, EndCommit, Rollback, UploadInv
  <1>9. CASE UNCHANGED vars
    BY <1>9 DEF vars, UploadInv
  <1>10. QED
    BY <1>2, <1>3, <1>4, <1>5, <1>6, <1>7, <1>8, <1>9 DEF Next

(* It holds when the request arrives. *)
LEMMA UploadStart == Init => UploadInv
  <1> SUFFICES ASSUME Init PROVE UploadInv
    OBVIOUS
  <1>1. PICK n \in Sizes : upload = [Arrived EXCEPT !.size = n + Framing]
    BY DEF Init
  <1>2. upload = [size |-> n + Framing, received |-> 0, given |-> 0, exceeded |-> FALSE,
                  sent |-> <<>>]
    BY <1>1 DEF Arrived
  <1>3. n + Framing \in Nat
    BY LimitTyped, ImportsAssumption
  <1>4. UploadGood(upload)
    <2>1. upload.received \in 0..upload.size
      BY <1>2, <1>3
    <2>2. <<>> \in Seq({400, 413})
      OBVIOUS
    <2>3. QED
      BY <1>2, <2>1, <2>2, LimitTyped DEF UploadGood
  <1>5. QED
    BY <1>2, <1>4 DEF Init, UploadInv

(* It is an invariant. *)
LEMMA UploadAlways == Spec => []UploadInv
  <1>1. QED
    BY UploadStart, UploadHolds, PTL DEF Spec

(* An upload is refused with 413 exactly if the file is too large, and the *)
(* application is never given more than the limit: the middleware, the cap *)
(* on the file and the sniffer together (body_limit.py:65-108,             *)
(* uploads.py:10-28).                                                      *)
THEOREM OversizeAlwaysRefused == Spec => []OversizeRefused
  <1>1. UploadInv => OversizeRefused
    <2> SUFFICES ASSUME UploadInv PROVE OversizeRefused
      OBVIOUS
    <2>1. CASE phase \in {"upload", "refused"}
      <3>1. UploadGood(upload)
        BY <2>1 DEF UploadInv
      <3>2. upload.given <= Limit
        BY <3>1, LimitTyped DEF UploadGood
      <3>3. phase = "refused" => Answered(upload)
        BY DEF UploadInv
      <3>4. QED
        BY <3>2, <3>3 DEF OversizeRefused, Answered, FileSize
    <2>2. CASE phase \in {"parse", "batch"}
      BY <2>2, LimitTyped DEF UploadInv, OversizeRefused, Arrived
    <2>3. QED
      BY <2>1, <2>2 DEF UploadInv
  <1>2. QED
    BY <1>1, UploadAlways, PTL

-----------------------------------------------------------------------------
(* The file and what has been read of it. *)

IsFile(f) == f = [format |-> f.format, shape |-> f.shape, of |-> f.of, rows |-> f.rows]

LegacyFile(f, p) ==
  /\ f.format = "legacy" /\ f.of = <<>> /\ f.rows \in Seq(LegacyRows)
  /\ Orderly(p) /\ p.payments = <<>>

NativeFile(f) ==
  /\ f.format = "native" /\ f.shape \in Shapes /\ f.of \in Ledgers \union {<<>>}
  /\ \E S : f.rows \in Seq(S)

ReadingInv ==
  /\ phase \in {"upload", "refused", "parse", "batch"}
  /\ parsed \in Readings
  /\ phase \in {"upload", "refused"} => parsed = NothingRead /\ file = NoFile
  /\ phase = "parse" => IsFile(file) /\ (LegacyFile(file, parsed) \/ NativeFile(file))

(* The row that is read next has cells of its format. *)
LEMMA RowTyped ==
  ASSUME ReadingInv, phase = "parse", NEW row \in RowAt(NextRow)
  PROVE  /\ LegacyFile(file, parsed) => row \in LegacyRows /\ LegacyCells(row)
         /\ NativeFile(file) => NativeCells(row)
  <1>1. LegacyFile(file, parsed) => row \in LegacyRows /\ LegacyCells(row)
    BY FilesAssumption DEF RowAt, LegacyFile, LegacyCells
  <1>2. ASSUME NativeFile(file)
        PROVE  NativeCells(row)
    <2>1. CASE file.of # <<>>
      <3> DEFINE rows == Export(file.shape, file.of)
      <3>1. row \in {rows[j] : j \in {NextRow} \intersect DOMAIN rows}
        BY <2>1 DEF RowAt
      <3>2. PICK j \in DOMAIN rows : row = rows[j]
        BY <3>1
      <3>3. file.of \in Ledgers /\ file.shape \in Shapes
        BY <1>2, <2>1 DEF NativeFile
      <3>4. QED
        BY <2>1, <3>2, <3>3, ExportTyped
    <2>2. CASE file.of = <<>>
      <3>1. row \in NativeRows
        BY <1>2, <2>2 DEF RowAt, NativeFile
      <3>2. QED
        BY <3>1, FilesAssumption DEF NativeCells
    <2>3. QED
      BY <2>1, <2>2
  <1>3. QED
    BY <1>1, <1>2

RowEffect(r, acc, header, i, row) ==
  /\ r.payments = acc.payments
  /\ r.errors = IF Refused(acc, header, row) THEN Append(acc.errors, i) ELSE acc.errors
  /\ r.accounts = IF Keyed(header, row) /\ Opens(acc, row)
                    THEN Append(acc.accounts, Opened(row)) ELSE acc.accounts
  /\ r.groups = IF Keyed(header, row)
                  THEN [acc.groups EXCEPT ![Key(row)] = Grown(@, i, row)]
                  ELSE acc.groups

(* The same as one predicate. *)
LEMMA LegacyRowEffect ==
  ASSUME NEW acc \in Readings, NEW header, NEW i \in Nat, NEW row, LegacyCells(row)
  PROVE  RowEffect(LegacyRow(acc, header, i, row), acc, header, i, row)
  <1> DEFINE r == LegacyRow(acc, header, i, row)
  <1>1. acc \in Readings
    OBVIOUS
  <1>2. /\ r.payments = acc.payments
        /\ r.errors = IF Refused(acc, header, row) THEN Append(acc.errors, i)
                                                   ELSE acc.errors
        /\ r.accounts = IF Keyed(header, row) /\ Opens(acc, row)
                          THEN Append(acc.accounts, Opened(row)) ELSE acc.accounts
        /\ r.groups = IF Keyed(header, row)
                        THEN [acc.groups EXCEPT ![Key(row)] = Grown(@, i, row)]
                        ELSE acc.groups
        /\ r = [accounts |-> r.accounts, payments |-> r.payments,
                errors |-> r.errors, groups |-> r.groups]
    BY <1>1, LegacyRowFields
  <1> HIDE DEF r
  <1>3. RowEffect(r, acc, header, i, row)
    BY <1>2 DEF RowEffect
  <1>4. QED
    BY <1>3 DEF r

(* A row is read: the file has it, and the reading is typed. *)
LEMMA RowRead ==
  ASSUME ReadingInv, ReadRow
  PROVE  ReadingInv'
  <1>1. phase = "parse" /\ phase' = "parse"
    BY DEF ReadRow
  <1>2. PICK row \in RowAt(NextRow) :
          /\ file' = [file EXCEPT !.rows = Append(file.rows, row)]
          /\ parsed' = IF file.format = "legacy"
                         THEN LegacyRow(parsed, file.shape, Line, row)
                         ELSE NativeRow(parsed, file.shape, Line, row)
    BY DEF ReadRow
  <1>3. IsFile(file) /\ (LegacyFile(file, parsed) \/ NativeFile(file)) /\ parsed \in Readings
    BY <1>1 DEF ReadingInv
  <1>4. /\ file'.format = file.format /\ file'.shape = file.shape /\ file'.of = file.of
        /\ file'.rows = Append(file.rows, row) /\ IsFile(file')
    BY <1>2, <1>3 DEF IsFile
  <1>5. CASE LegacyFile(file, parsed)
    <2>1. row \in LegacyRows /\ LegacyCells(row)
      BY <1>1, <1>5, RowTyped
    <2>2. Line \in Nat
      BY <1>5 DEF LegacyFile, Line, NextRow
    <2>3. parsed' = LegacyRow(parsed, file.shape, Line, row)
      BY <1>2, <1>5 DEF LegacyFile
    <2>4. Orderly(parsed')
      BY <1>5, <2>1, <2>2, <2>3, LegacyRowOrderly DEF LegacyFile
    <2>5. parsed'.payments = <<>>
      <3>1. RowEffect(LegacyRow(parsed, file.shape, Line, row), parsed, file.shape, Line, row)
        BY <1>3, <2>1, <2>2, LegacyRowEffect
      <3>2. LegacyRow(parsed, file.shape, Line, row).payments = parsed.payments
        BY ONLY <3>1 DEF RowEffect
      <3>3. QED
        BY <1>5, <2>3, <3>2 DEF LegacyFile
    <2>6. file'.rows \in Seq(LegacyRows)
      BY <1>4, <1>5, <2>1 DEF LegacyFile
    <2>7. LegacyFile(file', parsed')
      BY <1>4, <1>5, <2>4, <2>5, <2>6 DEF LegacyFile
    <2>8. parsed' \in Readings
      BY <2>4 DEF Orderly
    <2>9. QED
      BY <1>1, <1>4, <2>7, <2>8 DEF ReadingInv
  <1>6. CASE NativeFile(file)
    <2>1. NativeCells(row)
      BY <1>1, <1>6, RowTyped
    <2>2. PICK S : file.rows \in Seq(S)
      BY <1>6 DEF NativeFile
    <2>3. Line \in Nat
      BY <2>2 DEF Line, NextRow
    <2>4. parsed' = NativeRow(parsed, file.shape, Line, row)
      BY <1>2, <1>6 DEF NativeFile
    <2>5. parsed' \in Readings
      BY <1>3, <2>1, <2>3, <2>4, NativeRowTyped
    <2>6. file'.rows \in Seq(S \union {row})
      <3>1. file.rows \in Seq(S \union {row})
        BY <2>2
      <3>2. QED
        BY <1>4, <3>1
    <2>7. NativeFile(file')
      BY <1>4, <1>6, <2>6 DEF NativeFile
    <2>8. QED
      BY <1>1, <1>4, <2>5, <2>7 DEF ReadingInv
  <1>7. QED
    BY <1>3, <1>5, <1>6

(* A file that is accepted is an empty one of its format. *)
LEMMA Accepted ==
  ASSUME ReadingInv, phase = "upload", phase' = "parse", parsed' = parsed,
         NEW format, NEW shape, NEW of,
         file' = [format |-> format, shape |-> shape, of |-> of, rows |-> <<>>],
         \/ format = "legacy" /\ of = <<>>
         \/ format = "native" /\ shape \in Shapes /\ of \in Ledgers \union {<<>>}
  PROVE  ReadingInv'
  <1>1. parsed' = NothingRead
    BY DEF ReadingInv
  <1>2. Orderly(parsed') /\ parsed'.payments = <<>> /\ parsed' \in Readings
    BY <1>1, NothingReadOrderly DEF NothingRead, Orderly
  <1>3. IsFile(file')
    BY DEF IsFile
  <1>4. <<>> \in Seq(LegacyRows)
    OBVIOUS
  <1>5. LegacyFile(file', parsed') \/ NativeFile(file')
    <2>1. CASE format = "legacy" /\ of = <<>>
      BY <1>2, <1>4, <2>1 DEF LegacyFile
    <2>2. CASE format = "native" /\ shape \in Shapes /\ of \in Ledgers \union {<<>>}
      BY <1>4, <2>2 DEF NativeFile
    <2>3. QED
      BY <2>1, <2>2
  <1>6. QED
    BY <1>2, <1>3, <1>5 DEF ReadingInv

(* Every step keeps what is known of the file and its reading. *)
LEMMA ReadingHolds == ReadingInv /\ [Next]_vars => ReadingInv'
  <1> SUFFICES ASSUME ReadingInv, [Next]_vars PROVE ReadingInv'
    OBVIOUS
  <1>1. ASSUME phase = "upload", phase' \in {"upload", "refused"}, UNCHANGED <<file, parsed>>
        PROVE  ReadingInv'
    BY <1>1 DEF ReadingInv
  <1>2. CASE RefuseDeclared
    BY <1>1, <1>2 DEF RefuseDeclared, Answer, unchangedRest
  <1>3. CASE Receive
    BY <1>1, <1>3 DEF Receive, unchangedRest
  <1>4. CASE Truncated
    BY <1>1, <1>4 DEF Truncated, Answer, unchangedRest
  <1>5. ASSUME NEW format, NEW shape, NEW of, Accept(format, shape, of)
        PROVE  \/ ReadingInv'
               \/ /\ phase = "upload" /\ phase' = "parse" /\ parsed' = parsed
                  /\ format # None
                  /\ file' = [format |-> format, shape |-> shape, of |-> of, rows |-> <<>>]
    <2>1. phase = "upload"
      BY <1>5 DEF Accept
    <2>2. ASSUME NEW code, Answer(code), unchangedRest
          PROVE  ReadingInv'
      BY <1>1, <2>1, <2>2 DEF Answer, unchangedRest
    <2>3. QED
      BY <1>5, <2>1, <2>2 DEF Accept
  <1>6. CASE Accept(None, None, <<>>)
    BY <1>5, <1>6
  <1>7. CASE \E header \in {"exact", "accented"} : Accept("legacy", header, <<>>)
    <2>1. PICK header \in {"exact", "accented"} : Accept("legacy", header, <<>>)
      BY <1>7
    <2>2. \/ ReadingInv'
          \/ /\ phase = "upload" /\ phase' = "parse" /\ parsed' = parsed
             /\ file' = [format |-> "legacy", shape |-> header, of |-> <<>>, rows |-> <<>>]
      BY <1>5, <2>1
    <2>3. QED
      BY <2>2, Accepted
  <1>8. CASE \E shape \in {"accounts", "payments", "full"}, of \in Ledgers \union {<<>>} :
               Accept("native", shape, of)
    <2>1. PICK shape \in {"accounts", "payments", "full"}, of \in Ledgers \union {<<>>} :
            Accept("native", shape, of)
      BY <1>8
    <2>2. \/ ReadingInv'
          \/ /\ phase = "upload" /\ phase' = "parse" /\ parsed' = parsed
             /\ file' = [format |-> "native", shape |-> shape, of |-> of, rows |-> <<>>]
      BY <1>5, <2>1
    <2>3. shape \in Shapes
      BY DEF Shapes
    <2>4. QED
      BY <2>2, <2>3, Accepted
  <1>9. CASE ReadRow
    BY <1>9, RowRead
  <1>10. CASE EndOfFile
    <2>1. phase = "parse" /\ phase' = "batch" /\ file' = file
          /\ parsed' = IF file.format = "legacy" THEN LegacyEnd(parsed) ELSE parsed
      BY <1>10 DEF EndOfFile
    <2>2. LegacyFile(file, parsed) \/ NativeFile(file)
      BY <2>1 DEF ReadingInv
    <2>3. parsed' \in Readings
      BY <2>1, <2>2, LegacyEndTyped DEF LegacyFile, NativeFile, ReadingInv
    <2>4. QED
      BY <2>1, <2>3 DEF ReadingInv
  <1>11. CASE \E w \in Workers : \/ \E map \in Mappings : commit(w, map)
                                 \/ ImportRef(w) \/ EndCommit(w) \/ Rollback(w)
    <2>1. UNCHANGED <<phase, file, parsed>>
      BY <1>11 DEF commit, Begin, ImportRef, EndCommit, Rollback
    <2>2. QED
      BY <2>1 DEF ReadingInv
  <1>12. CASE UNCHANGED vars
    BY <1>12 DEF vars, ReadingInv
  <1>13. QED
    BY <1>2, <1>3, <1>4, <1>6, <1>7, <1>8, <1>9, <1>10, <1>11, <1>12 DEF Next

(* It is an invariant. *)
LEMMA ReadingAlways == Spec => []ReadingInv
  <1>1. Init => ReadingInv
    BY NothingReadOrderly DEF Init, ReadingInv, Orderly
  <1>2. QED
    BY <1>1, ReadingHolds, PTL DEF Spec

-----------------------------------------------------------------------------
(* The commits. *)

Idle == [w \in Workers |-> NoTx]

OneCommit ==
  /\ \A v, w \in Workers : Running(v) /\ Running(w) => v = w
  /\ \A w \in Workers : Running(w) => batch = "previewed"
  /\ \A i \in DOMAIN inserted : inserted[i] <= 1

CommitInv ==
  /\ overlapped \in BOOLEAN
  /\ inserted \in Seq(Nat)
  /\ last \in [Existing -> Nat]
  /\ batch \in {"none", "previewed", "committed"}
  /\ DOMAIN tx = Workers
  /\ \A w \in Workers : tx[w].left \subseteq Refs /\ tx[w].new \subseteq DOMAIN inserted
  /\ \A w \in Workers : Running(w) \/ tx[w] = NoTx
  /\ IF phase = "batch"
       THEN DOMAIN inserted = DOMAIN parsed.payments
       ELSE batch = "none" /\ inserted = <<>> /\ tx = Idle
  /\ batch = "previewed" => \A i \in DOMAIN inserted : inserted[i] = 0
  /\ overlapped \/ OneCommit

(* Outside a commit nothing changes but the phase. *)
CommitSame == UNCHANGED <<batch, tx, inserted, last, overlapped>>

(* Before there is a batch nothing of a commit changes. *)
LEMMA CommitKept ==
  ASSUME CommitInv, CommitSame, phase # "batch", phase' # "batch"
  PROVE  CommitInv'
  BY DEF CommitInv, CommitSame, OneCommit, Running, Idle

(* Nobody commits at the start. *)
LEMMA CommitStart == Init => CommitInv
  <1> SUFFICES ASSUME Init PROVE CommitInv
    OBVIOUS
  <1>1. /\ tx = Idle /\ inserted = <<>> /\ overlapped = FALSE /\ batch = "none"
        /\ last \in [Existing -> Nat] /\ phase = "upload"
    BY ImportsAssumption DEF Init, Idle
  <1>2. \A w \in Workers : tx[w] = NoTx /\ ~Running(w)
    BY <1>1 DEF Idle, Running, NoTx
  <1>3. <<>> \in Seq(Nat) /\ DOMAIN <<>> = {}
    OBVIOUS
  <1>4. OneCommit
    BY <1>1, <1>2, <1>3 DEF OneCommit
  <1>5. DOMAIN tx = Workers
    BY <1>1 DEF Idle
  <1>6. \A w \in Workers : tx[w].left \subseteq Refs /\ tx[w].new \subseteq DOMAIN inserted
    BY <1>2 DEF NoTx
  <1>7. QED
    BY <1>1, <1>2, <1>3, <1>4, <1>5, <1>6 DEF CommitInv

(* The end of a file: the batch, with nothing imported yet. *)
LEMMA BatchMade ==
  ASSUME ReadingInv, CommitInv, EndOfFile, parsed' \in Readings
  PROVE  CommitInv'
  <1>1. /\ phase = "parse" /\ phase' = "batch" /\ batch' = "previewed"
        /\ inserted' = [i \in DOMAIN parsed'.payments |-> 0]
        /\ UNCHANGED <<tx, last, overlapped>>
    BY DEF EndOfFile
  <1>2. tx = Idle /\ last \in [Existing -> Nat] /\ overlapped \in BOOLEAN
    BY <1>1 DEF CommitInv
  <1>3. \A w \in Workers : tx'[w] = NoTx /\ ~Running(w)'
    BY <1>1, <1>2 DEF Idle, Running, NoTx
  <1>4. parsed'.payments \in Seq(PaymentRecords)
    BY DEF Readings
  <1>5. inserted' \in Seq(Nat) /\ DOMAIN inserted' = DOMAIN parsed'.payments
        /\ \A i \in DOMAIN inserted' : inserted'[i] = 0
    <2>1. DOMAIN parsed'.payments = 1..Len(parsed'.payments) /\ Len(parsed'.payments) \in Nat
      BY <1>4
    <2>2. QED
      BY <1>1, <2>1
  <1>6. OneCommit'
    BY <1>3, <1>5 DEF OneCommit
  <1>7. DOMAIN tx' = Workers
    BY <1>1, <1>2 DEF Idle
  <1>8. \A w \in Workers : tx'[w].left \subseteq Refs /\ tx'[w].new \subseteq DOMAIN inserted'
    BY <1>3 DEF NoTx
  <1>9. QED
    BY <1>1, <1>2, <1>3, <1>5, <1>6, <1>7, <1>8 DEF CommitInv

(* A commit begins: it overlaps those that run. *)
LEMMA CommitBegun ==
  ASSUME ReadingInv, CommitInv, NEW w \in Workers, NEW map \in Mappings, commit(w, map)
  PROVE  CommitInv'
  <1> DEFINE new == [at |-> "run", map |-> map, left |-> PaidRefs, new |-> {}]
  <1>1. /\ phase = "batch" /\ ~Running(w) /\ batch = "previewed"
        /\ tx' = [tx EXCEPT ![w] = new]
        /\ overlapped' = (overlapped \/ \E v \in Workers \ {w} : Running(v))
        /\ UNCHANGED <<phase, parsed, batch, inserted, last>>
    BY DEF commit, Begin
  <1>2. DOMAIN tx' = Workers /\ tx'[w] = new /\ \A v \in Workers \ {w} : tx'[v] = tx[v]
    BY <1>1 DEF CommitInv
  <1>3. PaidRefs \subseteq Refs
    <2>1. parsed.payments \in Seq(PaymentRecords)
      BY DEF ReadingInv, Readings
    <2>2. \A i \in DOMAIN parsed.payments : parsed.payments[i] \in PaymentRecords
      BY <2>1, ElementOf
    <2>3. QED
      BY <2>2 DEF PaidRefs, PaymentRecords
  <1>4. Running(w)' /\ \A v \in Workers \ {w} : Running(v)' <=> Running(v)
    BY <1>2 DEF Running
  <1>5. overlapped' \in BOOLEAN
    BY <1>1 DEF CommitInv
  <1>6. \A v \in Workers : tx'[v].left \subseteq Refs /\ tx'[v].new \subseteq DOMAIN inserted'
    BY <1>1, <1>2, <1>3 DEF CommitInv
  <1>7. \A v \in Workers : Running(v)' \/ tx'[v] = NoTx
    BY <1>2, <1>4 DEF CommitInv
  <1>8. ASSUME ~overlapped'
        PROVE  OneCommit'
    <2>1. ~overlapped /\ \A v \in Workers \ {w} : ~Running(v)
      BY <1>1, <1>8
    <2>2. OneCommit
      BY <2>1 DEF CommitInv
    <2>3. \A v \in Workers : Running(v)' => v = w
      BY <1>4, <2>1
    <2>4. \A i \in DOMAIN inserted' : inserted'[i] <= 1
      BY <1>1, <2>2 DEF OneCommit
    <2>5. \A v \in Workers : Running(v)' => batch' = "previewed"
      BY <1>1
    <2>6. \A u, v \in Workers : Running(u)' /\ Running(v)' => u = v
      BY <2>3
    <2>7. QED
      BY <2>4, <2>5, <2>6 DEF OneCommit
  <1> HIDE DEF new
  <1>9. QED
    BY <1>1, <1>2, <1>5, <1>6, <1>7, <1>8 DEF CommitInv

(* A commit imports the payments of a reference. *)
LEMMA RefImported ==
  ASSUME CommitInv, phase = "batch", NEW w \in Workers, ImportRef(w)
  PROVE  CommitInv'
  <1>1. PICK ref \in tx[w].left, fits \in SUBSET DOMAIN parsed.payments :
          tx' = [tx EXCEPT ![w].left = @ \ {ref}, ![w].new = @ \union fits]
    BY DEF ImportRef
  <1>2. Running(w) /\ UNCHANGED <<phase, parsed, batch, inserted, last, overlapped>>
    BY DEF ImportRef
  <1>3. DOMAIN tx = Workers /\ DOMAIN inserted = DOMAIN parsed.payments
    BY DEF CommitInv
  <1>4. DOMAIN tx' = Workers /\ \A v \in Workers \ {w} : tx'[v] = tx[v]
    BY <1>1, <1>3
  <1>5. tx'[w].at = tx[w].at /\ tx'[w].left = tx[w].left \ {ref}
        /\ tx'[w].new = tx[w].new \union fits
    BY <1>1, <1>2, <1>3 DEF Running
  <1>6. \A v \in Workers : Running(v)' <=> Running(v)
    BY <1>4, <1>5 DEF Running
  <1>7. \A v \in Workers : tx'[v].left \subseteq Refs /\ tx'[v].new \subseteq DOMAIN inserted'
    BY <1>2, <1>3, <1>4, <1>5 DEF CommitInv
  <1>8. OneCommit => OneCommit'
    BY <1>2, <1>6 DEF OneCommit
  <1>9. \A v \in Workers : Running(v)' \/ tx'[v] = NoTx
    BY <1>2, <1>4, <1>6 DEF CommitInv
  <1>10. QED
    BY <1>2, <1>4, <1>7, <1>8, <1>9 DEF CommitInv

(* A commit ends: without an overlap it found every payment not imported   *)
(* yet.                                                                    *)
LEMMA CommitEnded ==
  ASSUME ReadingInv, CommitInv, phase = "batch", NEW w \in Workers, EndCommit(w)
  PROVE  CommitInv'
  <1>1. /\ Running(w) /\ batch' = "committed"
        /\ inserted' = [i \in DOMAIN inserted |->
                          inserted[i] + IF i \in tx[w].new THEN 1 ELSE 0]
        /\ last' = [e \in Existing |->
             Max({last[e]} \union
               {parsed.payments[i].date :
                  i \in {j \in tx[w].new : Target(tx[w].map, parsed.payments[j].ref) = e}})]
        /\ tx' = [tx EXCEPT ![w] = NoTx]
        /\ UNCHANGED <<phase, parsed, overlapped>>
    BY DEF EndCommit
  <1>2. /\ DOMAIN tx = Workers /\ inserted \in Seq(Nat)
        /\ DOMAIN inserted = DOMAIN parsed.payments /\ last \in [Existing -> Nat]
        /\ tx[w].new \subseteq DOMAIN inserted
    BY DEF CommitInv
  <1>3. DOMAIN tx' = Workers /\ tx'[w] = NoTx /\ \A v \in Workers \ {w} : tx'[v] = tx[v]
    BY <1>1, <1>2
  <1>4. ~Running(w)' /\ \A v \in Workers \ {w} : Running(v)' <=> Running(v)
    BY <1>3 DEF Running, NoTx
  <1>5. /\ DOMAIN inserted' = DOMAIN inserted
        /\ \A i \in DOMAIN inserted : inserted'[i] \in Nat /\ inserted'[i] <= inserted[i] + 1
        /\ inserted' \in Seq(Nat)
    <2>1. DOMAIN inserted = 1..Len(inserted) /\ Len(inserted) \in Nat
          /\ \A i \in DOMAIN inserted : inserted[i] \in Nat
      BY <1>2
    <2>2. \A i \in DOMAIN inserted : inserted'[i] \in Nat /\ inserted'[i] <= inserted[i] + 1
      BY <1>1, <2>1
    <2>3. DOMAIN inserted' = DOMAIN inserted
      BY <1>1
    <2>4. inserted' = [i \in 1..Len(inserted) |-> inserted'[i]]
      BY <1>1, <2>1
    <2>5. inserted' \in Seq(Nat)
      BY <2>1, <2>2, <2>4
    <2>6. QED
      BY <2>2, <2>3, <2>5
  <1>6. last' \in [Existing -> Nat]
    <2>1. parsed.payments \in Seq(PaymentRecords)
      BY DEF ReadingInv, Readings
    <2>2. ASSUME NEW i \in DOMAIN parsed.payments
          PROVE  parsed.payments[i].date \in Nat
      <3>1. parsed.payments[i] \in PaymentRecords
        BY <2>1, ElementOf
      <3>2. parsed.payments[i].date \in Dates
        BY <3>1 DEF PaymentRecords
      <3>3. QED
        BY <3>2, ParsersAssumption
    <2>3. IsFiniteSet(DOMAIN parsed.payments)
      <3>1. DOMAIN parsed.payments = 1..Len(parsed.payments) /\ Len(parsed.payments) \in Nat
        BY <2>1
      <3>2. QED
        BY <3>1, FS_Interval
    <2>4. ASSUME NEW e \in Existing
          PROVE  last'[e] \in Nat
      <3> DEFINE J == {j \in tx[w].new : Target(tx[w].map, parsed.payments[j].ref) = e}
                 f == [j \in J |-> parsed.payments[j].date]
      <3>1. J \subseteq DOMAIN parsed.payments
        BY <1>2
      <3>2. IsFiniteSet(J)
        BY <2>3, <3>1, FS_Subset
      <3>3. f \in [J -> Nat]
        BY <2>2, <3>1
      <3>4. {parsed.payments[i].date : i \in J} = {f[j] : j \in J}
        OBVIOUS
      <3>5. last[e] \in Nat
        BY <1>2
      <3>6. last'[e] = Max({last[e]} \union {f[j] : j \in J})
        BY <1>1, <3>4
      <3> HIDE DEF J, f
      <3>7. QED
        BY <3>2, <3>3, <3>5, <3>6, MaxTyped
    <2>5. last' = [e \in Existing |-> last'[e]]
      BY <1>1
    <2>6. QED
      BY <2>4, <2>5
  <1>7. \A v \in Workers : tx'[v].left \subseteq Refs /\ tx'[v].new \subseteq DOMAIN inserted'
    BY <1>3, <1>5 DEF CommitInv, NoTx
  <1>8. \A v \in Workers : Running(v)' \/ tx'[v] = NoTx
    BY <1>3, <1>4 DEF CommitInv
  <1>9. ASSUME ~overlapped'
        PROVE  OneCommit'
    <2>1. OneCommit
      BY <1>1, <1>9 DEF CommitInv
    <2>2. \A v \in Workers : ~Running(v)'
      BY <1>1, <1>4, <2>1 DEF OneCommit
    <2>3. batch = "previewed"
      BY <1>1, <2>1 DEF OneCommit
    <2>4. \A i \in DOMAIN inserted : inserted[i] = 0
      BY <2>3 DEF CommitInv
    <2>5. \A i \in DOMAIN inserted' : inserted'[i] <= 1
      BY <1>5, <2>4
    <2>6. QED
      BY <2>2, <2>5 DEF OneCommit
  <1>10. QED
    BY <1>1, <1>2, <1>3, <1>5, <1>6, <1>7, <1>8, <1>9 DEF CommitInv

(* A commit that fails leaves nothing. *)
LEMMA CommitRolledBack ==
  ASSUME CommitInv, phase = "batch", NEW w \in Workers, Rollback(w)
  PROVE  CommitInv'
  <1>1. /\ tx' = [tx EXCEPT ![w] = NoTx]
        /\ UNCHANGED <<phase, parsed, batch, inserted, last, overlapped>>
    BY DEF Rollback
  <1>2. DOMAIN tx' = Workers /\ tx'[w] = NoTx /\ \A v \in Workers \ {w} : tx'[v] = tx[v]
    BY <1>1 DEF CommitInv
  <1>3. ~Running(w)' /\ \A v \in Workers \ {w} : Running(v)' <=> Running(v)
    BY <1>2 DEF Running, NoTx
  <1>4. \A v \in Workers : tx'[v].left \subseteq Refs /\ tx'[v].new \subseteq DOMAIN inserted'
    BY <1>1, <1>2 DEF CommitInv, NoTx
  <1>5. OneCommit => OneCommit'
    BY <1>1, <1>3 DEF OneCommit
  <1>6. \A v \in Workers : Running(v)' \/ tx'[v] = NoTx
    BY <1>2, <1>3 DEF CommitInv
  <1>7. QED
    BY <1>1, <1>2, <1>4, <1>5, <1>6 DEF CommitInv

CommitPart == ReadingInv /\ CommitInv

(* Every step keeps what is known of the commits. *)
LEMMA CommitHolds == CommitPart /\ [Next]_vars => CommitPart'
  <1> SUFFICES ASSUME CommitPart, [Next]_vars PROVE CommitPart'
    OBVIOUS
  <1>1. ReadingInv /\ CommitInv /\ ReadingInv'
    BY ReadingHolds DEF CommitPart
  <1>2. \A v \in Workers : Running(v) => phase = "batch"
    BY <1>1 DEF CommitInv, Running, Idle, NoTx
  <1>3. CASE RefuseDeclared \/ Receive \/ Truncated
    <2>1. CommitSame /\ phase # "batch" /\ phase' # "batch"
      BY <1>3 DEF RefuseDeclared, Receive, Truncated, Answer, unchangedRest, CommitSame
    <2>2. QED
      BY <1>1, <2>1, CommitKept DEF CommitPart
  <1>4. ASSUME NEW format, NEW shape, NEW of, Accept(format, shape, of)
        PROVE  CommitPart'
    <2>1. CommitSame /\ phase # "batch" /\ phase' # "batch"
      BY <1>4 DEF Accept, Answer, unchangedRest, CommitSame
    <2>2. QED
      BY <1>1, <2>1, CommitKept DEF CommitPart
  <1>5. CASE ReadRow
    <2>1. CommitSame /\ phase # "batch" /\ phase' # "batch"
      BY <1>5 DEF ReadRow, CommitSame
    <2>2. QED
      BY <1>1, <2>1, CommitKept DEF CommitPart
  <1>6. CASE EndOfFile
    <2>1. parsed' \in Readings
      BY <1>1 DEF ReadingInv
    <2>2. QED
      BY <1>1, <1>6, <2>1, BatchMade DEF CommitPart
  <1>7. CASE \E w \in Workers : \E map \in Mappings : commit(w, map)
    BY <1>1, <1>7, CommitBegun DEF CommitPart
  <1>8. CASE \E w \in Workers : ImportRef(w)
    <2>1. PICK w \in Workers : ImportRef(w)
      BY <1>8
    <2>2. phase = "batch"
      BY <1>2, <2>1 DEF ImportRef
    <2>3. QED
      BY <1>1, <2>1, <2>2, RefImported DEF CommitPart
  <1>9. CASE \E w \in Workers : EndCommit(w)
    <2>1. PICK w \in Workers : EndCommit(w)
      BY <1>9
    <2>2. phase = "batch"
      BY <1>2, <2>1 DEF EndCommit
    <2>3. QED
      BY <1>1, <2>1, <2>2, CommitEnded DEF CommitPart
  <1>10. CASE \E w \in Workers : Rollback(w)
    <2>1. PICK w \in Workers : Rollback(w)
      BY <1>10
    <2>2. phase = "batch"
      BY <1>2, <2>1 DEF Rollback
    <2>3. QED
      BY <1>1, <2>1, <2>2, CommitRolledBack DEF CommitPart
  <1>11. CASE UNCHANGED vars
    BY <1>1, <1>11 DEF vars, CommitPart, CommitInv, OneCommit, Running
  <1>12. QED
    BY <1>3, <1>4, <1>5, <1>6, <1>7, <1>8, <1>9, <1>10, <1>11 DEF Next

(* It is an invariant. *)
LEMMA CommitAlways == Spec => []CommitPart
  <1>1. Init => CommitPart
    BY NothingReadOrderly, CommitStart DEF Init, ReadingInv, Orderly, CommitPart
  <1>2. QED
    BY <1>1, CommitHolds, PTL DEF Spec

(* The phases, the answers, what each commit has left and has inserted,    *)
(* and the ledger it writes to stay within their types                     *)
(* (imports/service.py:173-437).                                           *)
THEOREM ImportsAlwaysTyped == Spec => []TypeOK
  <1>1. UploadInv /\ CommitPart => TypeOK
    <2> SUFFICES ASSUME UploadInv, CommitPart PROVE TypeOK
      OBVIOUS
    <2>1. upload.sent \in Seq({400, 413}) /\ upload.exceeded \in BOOLEAN
          /\ phase \in {"upload", "refused", "parse", "batch"}
      <3>1. CASE phase \in {"upload", "refused"}
        BY <3>1 DEF UploadInv, UploadGood
      <3>2. CASE phase \in {"parse", "batch"}
        <4>1. upload = Arrived
          BY <3>2 DEF UploadInv
        <4>2. upload.sent = <<>> /\ upload.exceeded \in BOOLEAN
          BY <4>1 DEF Arrived
        <4>3. <<>> \in Seq({400, 413})
          OBVIOUS
        <4>4. QED
          BY <3>2, <4>2, <4>3
      <3>3. QED
        BY <3>1, <3>2 DEF UploadInv
    <2>2. \A w \in Workers : tx[w].left \subseteq Refs /\ tx[w].new \subseteq DOMAIN parsed.payments
      <3>1. CASE phase = "batch"
        BY <3>1 DEF CommitPart, CommitInv
      <3>2. CASE phase # "batch"
        BY <3>2 DEF CommitPart, CommitInv, Idle, NoTx
      <3>3. QED
        BY <3>1, <3>2
    <2>3. QED
      BY <2>1, <2>2 DEF CommitPart, CommitInv, TypeOK
  <1>2. QED
    BY <1>1, UploadAlways, CommitAlways, PTL

(* However often a commit fails and is repeated, a parsed payment is in    *)
(* the ledger at most once, unless two commits of the batch overlapped:    *)
(* the status check alone keeps it (imports/service.py:173).               *)
THEOREM ImportedAlwaysOnce == Spec => []ImportedOnceUnlessOverlapping
  <1>1. CommitPart => ImportedOnceUnlessOverlapping
    BY DEF CommitPart, CommitInv, OneCommit, ImportedOnceUnlessOverlapping
  <1>2. QED
    BY <1>1, CommitAlways, PTL

-----------------------------------------------------------------------------
(* Sums over finite sets: the fold adds each element once. *)

(* One step of the fold that sums the values of f over a set. *)
SumStep(sum, f, S) ==
  IF S = {} THEN 0
  ELSE LET x == CHOOSE x \in S : TRUE IN f[x] + sum[S \ {x}]

(* The library's fold is one step after another. *)
LEMMA SumUnfold ==
  ASSUME NEW f, NEW S
  PROVE  SumFunctionOnSet(f, S)
           = (CHOOSE sum : sum = [T \in SUBSET S |-> SumStep(sum, f, T)])[S]
  BY DEF SumFunctionOnSet, FoldFunctionOnSet, MapThenFoldSet, SumStep

(* The fold has a value on every part of a finite set. *)
LEMMA SumExists ==
  ASSUME NEW f, NEW S, IsFiniteSet(S)
  PROVE  \E sum : sum = [T \in SUBSET S |-> SumStep(sum, f, T)]
  <1> DEFINE Small(n) == {T \in SUBSET S : Cardinality(T) <= n}
             Sum(sum, n) == sum = [T \in Small(n) |-> SumStep(sum, f, T)]
             Bad == {n \in Nat : ~ \E sum : Sum(sum, n)}
  <1>1. \A T \in SUBSET S : IsFiniteSet(T) /\ Cardinality(T) \in Nat
                            /\ Cardinality(T) <= Cardinality(S)
    BY FS_Subset, FS_CardinalityType
  <1>2. Bad = {}
    <2>1. SUFFICES ASSUME Bad # {} PROVE FALSE
      OBVIOUS
    <2>2. PICK n \in Bad : \A m \in Bad : n <= m
      BY <2>1, LeastExists
    <2>3. CASE n = 0
      <3>1. Small(0) = {{}}
        BY <1>1, FS_EmptySet
      <3> DEFINE g == [T \in Small(0) |-> 0]
      <3>2. Sum(g, 0)
        BY <3>1 DEF SumStep
      <3>3. QED
        BY <2>2, <2>3, <3>2
    <2>4. CASE n # 0
      <3>1. n - 1 \in Nat /\ n - 1 \notin Bad
        <4>1. n \in Nat /\ n - 1 \in Nat /\ ~(n <= n - 1)
          BY <2>4
        <4> HIDE DEF Bad
        <4>2. QED
          BY <2>2, <4>1
      <3>2. PICK sum : Sum(sum, n - 1)
        BY <3>1
      <3> DEFINE g == [T \in Small(n) |-> SumStep(sum, f, T)]
      <3>3. ASSUME NEW T \in Small(n), T # {}
            PROVE  LET x == CHOOSE x \in T : TRUE
                   IN  T \ {x} \in Small(n - 1) /\ T \ {x} \in Small(n)
        <4> DEFINE x == CHOOSE x \in T : TRUE
        <4>1. x \in T
          BY <3>3
        <4>2. IsFiniteSet(T) /\ Cardinality(T) \in Nat /\ Cardinality(T) <= n
          BY <1>1
        <4> HIDE DEF x
        <4>3. Cardinality(T \ {x}) = Cardinality(T) - 1
          BY <4>1, <4>2, FS_RemoveElement
        <4>4. T \ {x} \in SUBSET S
          OBVIOUS
        <4>5. QED
          BY <3>1, <4>2, <4>3, <4>4 DEF x
      <3>4. \A T \in Small(n - 1) : T \in Small(n) /\ g[T] = sum[T]
        <4>1. \A T \in Small(n - 1) : T \in Small(n)
          BY <1>1, <3>1
        <4> HIDE DEF Small
        <4>2. QED
          BY <3>2, <4>1
      <3>5. ASSUME NEW T \in Small(n)
            PROVE  SumStep(sum, f, T) = SumStep(g, f, T)
        <4> HIDE DEF g, Small
        <4>1. CASE T = {}
          BY <4>1 DEF SumStep
        <4>2. CASE T # {}
          <5> DEFINE x == CHOOSE x \in T : TRUE
          <5>1. g[T \ {x}] = sum[T \ {x}]
            BY <3>3, <3>4, <4>2
          <5>2. QED
            BY <4>2, <5>1 DEF SumStep
        <4>3. QED
          BY <4>1, <4>2
      <3>6. Sum(g, n)
        <4> HIDE DEF Small
        <4>1. QED
          BY <3>5
      <3>7. QED
        BY <2>2, <3>6
    <2>5. QED
      BY <2>3, <2>4
  <1>3. Cardinality(S) \in Nat /\ Small(Cardinality(S)) = SUBSET S
    BY <1>1, FS_CardinalityType
  <1> HIDE DEF Small
  <1>4. PICK sum : Sum(sum, Cardinality(S))
    BY <1>2, <1>3
  <1>5. QED
    BY <1>3, <1>4

Sums(sum, f, S) == \A T \in SUBSET S : sum[T] = SumStep(sum, f, T)

(* Two sums that follow the fold agree on the sets both are defined on.    *)
LEMMA SumsAgree ==
  ASSUME NEW f, NEW S, IsFiniteSet(S), NEW T \in SUBSET S,
         NEW sum, Sums(sum, f, S), NEW part, Sums(part, f, T)
  PROVE  part[T] = sum[T]
  <1> DEFINE Bad == {n \in Nat : \E U \in SUBSET T :
                       Cardinality(U) = n /\ part[U] # sum[U]}
  <1>1. \A U \in SUBSET T : IsFiniteSet(U) /\ Cardinality(U) \in Nat
    BY FS_Subset, FS_CardinalityType
  <1>2. Bad = {}
    <2>1. SUFFICES ASSUME Bad # {} PROVE FALSE
      OBVIOUS
    <2>2. PICK n \in Bad : \A m \in Bad : n <= m
      BY <2>1, LeastExists
    <2>3. PICK U \in SUBSET T : Cardinality(U) = n /\ part[U] # sum[U]
      OBVIOUS
    <2>4. part[U] = SumStep(part, f, U) /\ sum[U] = SumStep(sum, f, U)
      BY DEF Sums
    <2>5. U # {}
      BY <2>3, <2>4 DEF SumStep
    <2> DEFINE x == CHOOSE x \in U : TRUE
    <2>6. x \in U
      BY <2>5
    <2> HIDE DEF x
    <2>7. U \ {x} \in SUBSET T /\ Cardinality(U \ {x}) = n - 1
      BY <1>1, <2>3, <2>6, FS_RemoveElement
    <2>8. n \in Nat /\ n - 1 \in Nat /\ ~(n <= n - 1)
      BY <1>1, <2>7
    <2>9. part[U \ {x}] = sum[U \ {x}]
      BY <2>2, <2>7, <2>8
    <2>10. QED
      BY <2>3, <2>4, <2>9 DEF SumStep, x
  <1>3. QED
    BY <1>1, <1>2

(* The sum over no element is zero; one element counts once, whichever it  *)
(* is.                                                                     *)
LEMMA SumFacts ==
  ASSUME NEW f, NEW S, IsFiniteSet(S), \A x \in S : f[x] \in Int
  PROVE  /\ SumFunctionOnSet(f, {}) = 0
         /\ SumFunctionOnSet(f, S) \in Int
         /\ \A x \in S : SumFunctionOnSet(f, S)
                            = f[x] + SumFunctionOnSet(f, S \ {x})
  <1>1. PICK sum : sum = [T \in SUBSET S |-> SumStep(sum, f, T)]
    BY SumExists
  <1>2. ASSUME NEW T \in SUBSET S
        PROVE  SumFunctionOnSet(f, T) = sum[T]
    <2> DEFINE part == CHOOSE p : p = [U \in SUBSET T |-> SumStep(p, f, U)]
    <2>1. IsFiniteSet(T)
      BY FS_Subset
    <2>2. part = [U \in SUBSET T |-> SumStep(part, f, U)]
      BY <2>1, SumExists
    <2>3. SumFunctionOnSet(f, T) = part[T]
      BY SumUnfold
    <2> HIDE DEF part
    <2>4. Sums(sum, f, S) /\ Sums(part, f, T)
      BY <1>1, <2>2 DEF Sums
    <2>5. part[T] = sum[T]
      BY <2>4, SumsAgree
    <2>6. QED
      BY <2>3, <2>5
  <1>3. \A T \in SUBSET S : IsFiniteSet(T) /\ Cardinality(T) \in Nat
    BY FS_Subset, FS_CardinalityType
  <1>4. sum[{}] = 0
    BY <1>1 DEF SumStep
  <1> DEFINE Good(T) == /\ sum[T] \in Int
                        /\ \A x \in T : sum[T] = f[x] + sum[T \ {x}]
             Bad == {n \in Nat : \E T \in SUBSET S : Cardinality(T) = n /\ ~Good(T)}
  <1>5. Bad = {}
    <2>1. SUFFICES ASSUME Bad # {} PROVE FALSE
      OBVIOUS
    <2>2. PICK n \in Bad : \A m \in Bad : n <= m
      BY <2>1, LeastExists
    <2>3. PICK T \in SUBSET S : Cardinality(T) = n /\ ~Good(T)
      OBVIOUS
    <2>4. sum[T] = SumStep(sum, f, T)
      BY <1>1
    <2>5. T # {}
      <3>1. Good({})
        BY <1>4
      <3> HIDE DEF Good
      <3>2. QED
        BY <2>3, <3>1
    <2> DEFINE c == CHOOSE x \in T : TRUE
    <2>6. c \in T /\ sum[T] = f[c] + sum[T \ {c}]
      BY <2>4, <2>5 DEF SumStep
    <2> HIDE DEF c, Good
    <2>7. ASSUME NEW x \in T
          PROVE  Good(T \ {x})
      <3>1. T \ {x} \in SUBSET S /\ Cardinality(T \ {x}) = n - 1
        BY <1>3, <2>3, FS_RemoveElement
      <3>2. n \in Nat /\ n - 1 \in Nat /\ ~(n <= n - 1)
        BY <1>3, <3>1
      <3>3. QED
        BY <2>2, <3>1, <3>2
    <2>8. sum[T] \in Int
      BY <2>6, <2>7 DEF Good
    <2>9. ASSUME NEW x \in T
          PROVE  sum[T] = f[x] + sum[T \ {x}]
      <3>1. CASE x = c
        BY <2>6, <3>1
      <3>2. CASE x # c
        <4>1. x \in T \ {c} /\ c \in T \ {x}
          BY <2>6, <3>2
        <4>2. sum[T \ {c}] = f[x] + sum[(T \ {c}) \ {x}]
          BY <2>6, <2>7, <4>1 DEF Good
        <4>3. sum[T \ {x}] = f[c] + sum[(T \ {x}) \ {c}]
          BY <2>7, <4>1 DEF Good
        <4>4. (T \ {c}) \ {x} = (T \ {x}) \ {c}
          OBVIOUS
        <4>5. sum[(T \ {c}) \ {x}] \in Int
          <5>1. (T \ {c}) \ {x} \in SUBSET S
            OBVIOUS
          <5>2. Cardinality((T \ {c}) \ {x}) = n - 2
            <6>1. Cardinality(T \ {c}) = n - 1 /\ IsFiniteSet(T \ {c})
              BY <1>3, <2>3, <2>6, FS_RemoveElement
            <6>2. n \in Int
              BY <1>3, <2>3
            <6> DEFINE V == T \ {c}
            <6>3. x \in V /\ IsFiniteSet(V) /\ Cardinality(V) = n - 1
              BY <4>1, <6>1
            <6> HIDE DEF V
            <6>4. Cardinality(V \ {x}) = (n - 1) - 1
              BY <6>3, FS_RemoveElement
            <6>5. QED
              BY <6>2, <6>4 DEF V
          <5>3. n \in Nat /\ n - 2 \in Nat /\ ~(n <= n - 2)
            BY <1>3, <5>1, <5>2
          <5>4. Good((T \ {c}) \ {x})
            BY <2>2, <5>1, <5>2, <5>3
          <5>5. QED
            BY <5>4 DEF Good
        <4>6. f[x] \in Int /\ f[c] \in Int
          BY <2>6
        <4> DEFINE rest == sum[(T \ {c}) \ {x}]
        <4>7. rest \in Int /\ sum[T] = f[c] + (f[x] + rest)
          BY <2>6, <4>2, <4>5
        <4>8. sum[T \ {x}] = f[c] + rest
          BY <4>3, <4>4
        <4> HIDE DEF rest
        <4>9. f[c] + (f[x] + rest) = f[x] + (f[c] + rest)
          BY <4>6, <4>7
        <4>10. QED
          BY <4>7, <4>8, <4>9
      <3>3. QED
        BY <3>1, <3>2
    <2>10. QED
      BY <2>3, <2>8, <2>9 DEF Good
  <1>6. \A T \in SUBSET S : Good(T)
    BY <1>3, <1>5
  <1>7. {} \in SUBSET S /\ S \in SUBSET S /\ \A x \in S : S \ {x} \in SUBSET S
    OBVIOUS
  <1>8. QED
    BY <1>2, <1>4, <1>6, <1>7

(* The sum depends only on the values at the elements of the set. *)
LEMMA SumCongruent ==
  ASSUME NEW f, NEW g, NEW S, IsFiniteSet(S),
         \A x \in S : f[x] \in Int /\ g[x] = f[x]
  PROVE  SumFunctionOnSet(g, S) = SumFunctionOnSet(f, S)
  <1> DEFINE Bad == {n \in Nat : \E U \in SUBSET S :
                       /\ Cardinality(U) = n
                       /\ SumFunctionOnSet(g, U) # SumFunctionOnSet(f, U)}
  <1>1. \A U \in SUBSET S : IsFiniteSet(U) /\ Cardinality(U) \in Nat
    BY FS_Subset, FS_CardinalityType
  <1>2. Bad = {}
    <2>1. SUFFICES ASSUME Bad # {} PROVE FALSE
      OBVIOUS
    <2>2. PICK n \in Bad : \A m \in Bad : n <= m
      BY <2>1, LeastExists
    <2>3. PICK U \in SUBSET S :
            /\ Cardinality(U) = n
            /\ SumFunctionOnSet(g, U) # SumFunctionOnSet(f, U)
      OBVIOUS
    <2>4. /\ \A x \in U : f[x] \in Int
          /\ \A x \in U : g[x] \in Int
          /\ IsFiniteSet(U)
      BY <1>1
    <2>5. U # {}
      <3>1. SumFunctionOnSet(g, {}) = 0 /\ SumFunctionOnSet(f, {}) = 0
        BY <2>4, SumFacts
      <3>2. QED
        BY <2>3, <3>1
    <2>6. PICK x \in U : TRUE
      BY <2>5
    <2> DEFINE V == U \ {x}
    <2>7. V \in SUBSET S /\ Cardinality(V) = n - 1
      BY <1>1, <2>3, FS_RemoveElement
    <2>8. n \in Nat /\ n - 1 \in Nat /\ ~(n <= n - 1)
      BY <1>1, <2>7
    <2>9. SumFunctionOnSet(g, V) = SumFunctionOnSet(f, V)
      BY <2>2, <2>7, <2>8
    <2>10. /\ SumFunctionOnSet(f, U) = f[x] + SumFunctionOnSet(f, V)
           /\ SumFunctionOnSet(g, U) = g[x] + SumFunctionOnSet(g, V)
      BY <2>4, SumFacts
    <2>11. QED
      BY <2>3, <2>9, <2>10
  <1>3. S \in SUBSET S /\ Cardinality(S) \in Nat
    BY <1>1
  <1>4. QED
    BY <1>2, <1>3

-----------------------------------------------------------------------------

-----------------------------------------------------------------------------
(* The amounts in a column of some rows. *)

(* Their sum; none, if there is no row. *)
AmountIn(rows, S, column) ==
  IF S = {} THEN None ELSE SumFunction([i \in S |-> rows[i][column]])

(* A set of positions of a sequence is finite. *)
LEMMA IndicesFinite ==
  ASSUME NEW V, NEW s \in Seq(V), NEW S \in SUBSET DOMAIN s
  PROVE  IsFiniteSet(S)
  <1>1. DOMAIN s = 1..Len(s) /\ Len(s) \in Nat
    OBVIOUS
  <1>2. IsFiniteSet(DOMAIN s)
    BY <1>1, FS_Interval
  <1>3. QED
    BY <1>2, FS_Subset

(* A further row outside the set does not matter. *)
LEMMA AmountKept ==
  ASSUME NEW V, NEW rows \in Seq(V), NEW row \in V, NEW S \in SUBSET DOMAIN rows, NEW column
  PROVE  AmountIn(Append(rows, row), S, column) = AmountIn(rows, S, column)
  <1>1. \A i \in S : Append(rows, row)[i] = rows[i]
    OBVIOUS
  <1>2. [i \in S |-> Append(rows, row)[i][column]] = [i \in S |-> rows[i][column]]
    BY <1>1
  <1>3. QED
    BY <1>2 DEF AmountIn

(* A further row in it adds its amount. *)
LEMMA AmountGrows ==
  ASSUME NEW V, NEW rows \in Seq(V), NEW row \in V, NEW S \in SUBSET DOMAIN rows, NEW column,
         \A i \in S : rows[i][column] \in Int, row[column] \in Int
  PROVE  AmountIn(Append(rows, row), S \union {Len(rows) + 1}, column)
           = Plus(AmountIn(rows, S, column), row[column])
  <1> DEFINE n == Len(rows) + 1
             T == S \union {n}
             f == [i \in S |-> rows[i][column]]
             g == [i \in T |-> Append(rows, row)[i][column]]
  <1>1. n \in Nat /\ n \notin S /\ Append(rows, row)[n] = row
        /\ \A i \in S : Append(rows, row)[i] = rows[i]
    OBVIOUS
  <1>2. g[n] = row[column] /\ \A i \in S : g[i] = f[i]
    BY <1>1
  <1>3. \A i \in S : f[i] \in Int
    OBVIOUS
  <1>4. IsFiniteSet(S) /\ IsFiniteSet(T)
    BY IndicesFinite, FS_AddElement
  <1>5. DOMAIN f = S /\ DOMAIN g = T /\ T # {}
    OBVIOUS
  <1>6. AmountIn(Append(rows, row), T, column) = SumFunctionOnSet(g, T)
    BY <1>5 DEF AmountIn, SumFunction
  <1>7. AmountIn(rows, S, column) = IF S = {} THEN None ELSE SumFunctionOnSet(f, S)
    BY <1>5 DEF AmountIn, SumFunction
  <1>8. n \in T /\ T \ {n} = S
    BY <1>1
  <1> HIDE DEF f, g, T, n
  <1>9. \A i \in T : g[i] \in Int
    BY <1>2, <1>3, <1>8
  <1>10. SumFunctionOnSet(g, T) = g[n] + SumFunctionOnSet(g, S)
    <2>1. SumFunctionOnSet(g, T) = g[n] + SumFunctionOnSet(g, T \ {n})
      BY <1>4, <1>8, <1>9, SumFacts
    <2>2. QED
      BY <1>8, <2>1
  <1>11. SumFunctionOnSet(g, S) = SumFunctionOnSet(f, S)
    BY <1>2, <1>3, <1>4, SumCongruent
  <1>12. SumFunctionOnSet(f, S) \in Int /\ SumFunctionOnSet(f, {}) = 0
    BY <1>3, <1>4, SumFacts
  <1>13. None \notin Int
    BY ParsersAssumption
  <1>14. CASE S = {}
    <2>1. SumFunctionOnSet(g, T) = row[column]
      BY <1>2, <1>10, <1>11, <1>12, <1>14
    <2>2. Plus(AmountIn(rows, S, column), row[column]) = row[column]
      BY <1>7, <1>14 DEF Plus
    <2>3. QED
      BY <1>6, <2>1, <2>2 DEF T, n
  <1>15. CASE S # {}
    <2>1. SumFunctionOnSet(g, T) = SumFunctionOnSet(f, S) + row[column]
      BY <1>2, <1>10, <1>11, <1>12
    <2>2. Plus(AmountIn(rows, S, column), row[column]) = SumFunctionOnSet(f, S) + row[column]
      BY <1>7, <1>12, <1>13, <1>15 DEF Plus
    <2>3. QED
      BY <1>6, <2>1, <2>2 DEF T, n
  <1>16. QED
    BY <1>14, <1>15

-----------------------------------------------------------------------------
(* What a legacy file says, and what has been read of it. *)

(* The rows whose amount counts for a reference and date. *)
Counted(f, k, kind, column) ==
  {i \in DOMAIN f.rows : /\ Keyed(f.shape, f.rows[i]) /\ Key(f.rows[i]) = k
                         /\ f.rows[i].kind = kind /\ f.rows[i][column] # None}

Counts(f, p) ==
  \A k \in Keys :
    /\ p.groups[k].payment
         = AmountIn(f.rows, Counted(f, k, "payment", "credito"), "credito")
    /\ p.groups[k].interest
         = AmountIn(f.rows, Counted(f, k, "interest", "debito"), "debito")

(* Row j + 1 of the file is the first of the group. *)
HeadAt(f, p, k, j) ==
  /\ j \in DOMAIN f.rows /\ p.groups[k].rows # <<>>
  /\ p.groups[k].rows[1] = j + 1 /\ Key(f.rows[j]) = k

Heads(f, p) == \A k \in Keys : p.groups[k].rows # <<>> => \E j \in DOMAIN f.rows : HeadAt(f, p, k, j)

(* Where row i is accounted for. *)
Reported(f, p, i) == i + 1 \in ToSet(p.errors)
Lending(f, i)     == /\ Keyed(f.shape, f.rows[i])
                     /\ f.rows[i].kind = "disbursement" /\ f.rows[i].debito # None
Opening(f, p, i)  == /\ Lending(f, i)
                     /\ \A j \in 1..(i - 1) : ~(Lending(f, j) /\ f.rows[j].ref = f.rows[i].ref)
                     /\ Opened(f.rows[i]) \in ToSet(p.accounts)
Paying(f, i)      == /\ Keyed(f.shape, f.rows[i])
                     /\ f.rows[i].kind = "payment" /\ f.rows[i].credito # None
Charging(f, p, i) == /\ Keyed(f.shape, f.rows[i])
                     /\ f.rows[i].kind = "interest" /\ f.rows[i].debito # None
                     /\ \E j \in 1..i : HeadAt(f, p, Key(f.rows[i]), j)

Placed(f, p, i) == Reported(f, p, i) \/ Opening(f, p, i) \/ Paying(f, i) \/ Charging(f, p, i)

(* Every reference that is lent to has its account. *)
Lent(f, p) == \A i \in DOMAIN f.rows : Lending(f, i) => f.rows[i].ref \in RefsOf(p.accounts)

Accounted(f, p) ==
  Counts(f, p) /\ Heads(f, p) /\ Lent(f, p) /\ \A i \in DOMAIN f.rows : Placed(f, p, i)

(* A file g is f with one row more. *)
Longer(g, f, row) == g.shape = f.shape /\ g.rows = Append(f.rows, row) /\ f.rows \in Seq(LegacyRows)

(* The rows of a file after one more. *)
LEMMA LongerFile ==
  ASSUME NEW f, NEW g, NEW row \in LegacyRows, Longer(g, f, row)
  PROVE  /\ Len(f.rows) \in Nat /\ DOMAIN f.rows = 1..Len(f.rows)
         /\ DOMAIN g.rows = 1..(Len(f.rows) + 1)
         /\ g.rows[Len(f.rows) + 1] = row
         /\ \A i \in DOMAIN f.rows : g.rows[i] = f.rows[i] /\ i \in DOMAIN g.rows
  BY DEF Longer

(* One more row adds its amount to the total of its reference and date,    *)
(* and changes no other total.                                             *)
LEMMA TotalGrows ==
  ASSUME NEW f, NEW g, NEW row \in LegacyRows, Longer(g, f, row), NEW k, NEW kind,
         NEW column \in {"debito", "credito"}
  PROVE  AmountIn(g.rows, Counted(g, k, kind, column), column)
           = IF /\ Keyed(f.shape, row) /\ Key(row) = k
                /\ row.kind = kind /\ row[column] # None
               THEN Plus(AmountIn(f.rows, Counted(f, k, kind, column), column), row[column])
               ELSE AmountIn(f.rows, Counted(f, k, kind, column), column)
  <1> DEFINE C == Counted(f, k, kind, column)
             n == Len(f.rows) + 1
             hit == /\ Keyed(f.shape, row) /\ Key(row) = k
                    /\ row.kind = kind /\ row[column] # None
  <1>1. /\ Len(f.rows) \in Nat /\ DOMAIN f.rows = 1..Len(f.rows)
        /\ DOMAIN g.rows = 1..n /\ g.rows[n] = row /\ g.shape = f.shape
        /\ \A i \in DOMAIN f.rows : g.rows[i] = f.rows[i] /\ i \in DOMAIN g.rows
    BY LongerFile DEF Longer
  <1>2. DOMAIN g.rows = DOMAIN f.rows \union {n}
    BY <1>1
  <1>3. C \in SUBSET DOMAIN f.rows
    BY DEF Counted
  <1>4. Counted(g, k, kind, column) = IF hit THEN C \union {n} ELSE C
    <2> HIDE DEF n
    <2>1. \A i \in DOMAIN f.rows : i \in Counted(g, k, kind, column) <=> i \in C
      BY <1>1 DEF Counted
    <2>2. n \in Counted(g, k, kind, column) <=> hit
      BY <1>1, <1>2 DEF Counted
    <2>3. Counted(g, k, kind, column) \in SUBSET (DOMAIN f.rows \union {n})
      BY <1>2 DEF Counted
    <2> HIDE DEF hit, C
    <2>4. n \notin DOMAIN f.rows
      BY <1>1 DEF n
    <2>5. QED
      BY <1>3, <2>1, <2>2, <2>3, <2>4
  <1>5. g.rows = Append(f.rows, row) /\ f.rows \in Seq(LegacyRows)
    BY DEF Longer
  <1>6. CASE hit
    <2>1. \A i \in C : f.rows[i][column] \in Int
      <3>1. SUFFICES ASSUME NEW i \in C PROVE f.rows[i][column] \in Int
        OBVIOUS
      <3>2. f.rows[i] \in LegacyRows /\ f.rows[i][column] # None
        BY <1>3, <1>5 DEF Counted
      <3>3. f.rows[i].debito \in Amounts /\ f.rows[i].credito \in Amounts
        BY <3>2, FilesAssumption
      <3>4. QED
        BY <3>2, <3>3 DEF Amounts
    <2>2. row[column] \in Int
      <3>1. row.debito \in Amounts /\ row.credito \in Amounts
        BY FilesAssumption
      <3>2. QED
        BY <1>6, <3>1 DEF Amounts
    <2> HIDE DEF C
    <2>3. AmountIn(Append(f.rows, row), C \union {n}, column)
            = Plus(AmountIn(f.rows, C, column), row[column])
      BY <1>3, <1>5, <2>1, <2>2, AmountGrows
    <2>4. QED
      BY <1>4, <1>5, <1>6, <2>3 DEF C
  <1>7. CASE ~hit
    <2> HIDE DEF C
    <2>1. AmountIn(Append(f.rows, row), C, column) = AmountIn(f.rows, C, column)
      BY <1>3, <1>5, AmountKept
    <2>2. QED
      BY <1>4, <1>5, <1>7, <2>1 DEF C
  <1>8. QED
    BY <1>6, <1>7

(* What a row does to a group. *)
LEMMA GroupAfter ==
  ASSUME NEW p \in Readings, NEW q, NEW header, NEW i, NEW row, LegacyCells(row),
         RowEffect(q, p, header, i, row), NEW k \in Keys
  PROVE  q.groups[k] = IF Keyed(header, row) /\ Key(row) = k
                         THEN Grown(p.groups[k], i, row) ELSE p.groups[k]
  <1>1. p.groups \in [Keys -> Groups]
    BY DEF Readings
  <1>2. CASE Keyed(header, row)
    <2>1. q.groups = [p.groups EXCEPT ![Key(row)] = Grown(p.groups[Key(row)], i, row)]
      BY <1>2 DEF RowEffect
    <2>2. PICK g : g = Grown(p.groups[Key(row)], i, row)
      OBVIOUS
    <2>3. q.groups = [p.groups EXCEPT ![Key(row)] = g]
      BY <2>1, <2>2
    <2>4. CASE Key(row) = k
      BY <1>1, <1>2, <2>2, <2>3, <2>4
    <2>5. CASE Key(row) # k
      BY <1>1, <2>3, <2>5
    <2>6. QED
      BY <2>4, <2>5
  <1>3. CASE ~Keyed(header, row)
    BY <1>3 DEF RowEffect
  <1>4. QED
    BY <1>2, <1>3

(* The groups keep holding the totals. *)
LEMMA CountsKept ==
  ASSUME NEW f, NEW g, NEW row \in LegacyRows, Longer(g, f, row), NEW p \in Readings,
         Counts(f, p), NEW q, NEW i, RowEffect(q, p, f.shape, i, row)
  PROVE  Counts(g, q)
  <1> SUFFICES ASSUME NEW k \in Keys
               PROVE  /\ q.groups[k].payment
                           = AmountIn(g.rows, Counted(g, k, "payment", "credito"), "credito")
                      /\ q.groups[k].interest
                           = AmountIn(g.rows, Counted(g, k, "interest", "debito"), "debito")
    BY DEF Counts
  <1>1. LegacyCells(row)
    BY FilesAssumption DEF LegacyCells
  <1>2. q.groups[k] = IF Keyed(f.shape, row) /\ Key(row) = k
                        THEN Grown(p.groups[k], i, row) ELSE p.groups[k]
    BY <1>1, GroupAfter
  <1> DEFINE paid == AmountIn(f.rows, Counted(f, k, "payment", "credito"), "credito")
             due  == AmountIn(f.rows, Counted(f, k, "interest", "debito"), "debito")
  <1>3. p.groups[k].payment = paid /\ p.groups[k].interest = due
    BY DEF Counts
  <1>4. AmountIn(g.rows, Counted(g, k, "payment", "credito"), "credito")
          = IF /\ Keyed(f.shape, row) /\ Key(row) = k
               /\ row.kind = "payment" /\ row["credito"] # None
              THEN Plus(paid, row["credito"]) ELSE paid
    BY TotalGrows
  <1>5. AmountIn(g.rows, Counted(g, k, "interest", "debito"), "debito")
          = IF /\ Keyed(f.shape, row) /\ Key(row) = k
               /\ row.kind = "interest" /\ row["debito"] # None
              THEN Plus(due, row["debito"]) ELSE due
    BY TotalGrows
  <1> HIDE DEF paid, due
  <1>6. QED
    BY <1>2, <1>3, <1>4, <1>5 DEF Grown

(* The first row of a group stays the first. *)
LEMMA HeadKept ==
  ASSUME NEW f, NEW g, NEW row \in LegacyRows, Longer(g, f, row), NEW p \in Readings,
         NEW q, NEW i, RowEffect(q, p, f.shape, i, row), NEW k \in Keys, NEW j,
         HeadAt(f, p, k, j)
  PROVE  HeadAt(g, q, k, j)
  <1>1. LegacyCells(row)
    BY FilesAssumption DEF LegacyCells
  <1>2. q.groups[k] = IF Keyed(f.shape, row) /\ Key(row) = k
                        THEN Grown(p.groups[k], i, row) ELSE p.groups[k]
    BY <1>1, GroupAfter
  <1>3. j \in DOMAIN f.rows /\ p.groups[k].rows # <<>> /\ p.groups[k].rows[1] = j + 1
        /\ Key(f.rows[j]) = k
    BY DEF HeadAt
  <1>4. p.groups[k].rows \in Seq(Nat)
    BY DEF Readings, Groups
  <1>5. q.groups[k].rows \in {p.groups[k].rows, Append(p.groups[k].rows, i)}
    BY <1>2 DEF Grown
  <1>6. q.groups[k].rows # <<>> /\ q.groups[k].rows[1] = j + 1
    BY SMTT(30), <1>3, <1>4, <1>5
  <1>7. j \in DOMAIN g.rows /\ g.rows[j] = f.rows[j]
    BY <1>3, LongerFile
  <1>8. QED
    BY <1>3, <1>6, <1>7 DEF HeadAt

(* The group of the row that is read has a first row, this one if no other. *)
LEMMA HeadOfRow ==
  ASSUME NEW f, NEW g, NEW row \in LegacyRows, Longer(g, f, row), NEW p \in Readings,
         Heads(f, p), NEW q, RowEffect(q, p, f.shape, Len(f.rows) + 2, row),
         Keyed(f.shape, row)
  PROVE  \E j \in 1..(Len(f.rows) + 1) : HeadAt(g, q, Key(row), j)
  <1> DEFINE k == Key(row)
             n == Len(f.rows) + 1
  <1>1. LegacyCells(row) /\ k \in Keys
    BY FilesAssumption DEF LegacyCells, Keyed, Key, Keys
  <1>2. q.groups[k] = Grown(p.groups[k], n + 1, row)
    <2>1. Len(f.rows) + 2 = n + 1
      BY LongerFile
    <2>2. QED
      BY <1>1, <2>1, GroupAfter
  <1>3. /\ Len(f.rows) \in Nat /\ DOMAIN f.rows = 1..Len(f.rows)
        /\ DOMAIN g.rows = 1..n /\ g.rows[n] = row
    BY LongerFile
  <1>4. CASE p.groups[k].rows = <<>>
    <2>1. q.groups[k].rows = <<n + 1>>
      BY <1>2, <1>4 DEF Grown
    <2>2. HeadAt(g, q, k, n)
      <3> HIDE DEF n, k
      <3>1. n \in DOMAIN g.rows
        BY <1>3 DEF n
      <3>2. Key(g.rows[n]) = k
        BY <1>3 DEF k
      <3>3. QED
        BY <2>1, <3>1, <3>2 DEF HeadAt
    <2>3. n \in 1..n
      BY <1>3
    <2>4. QED
      BY <2>2, <2>3
  <1>5. CASE p.groups[k].rows # <<>>
    <2>1. PICK j \in DOMAIN f.rows : HeadAt(f, p, k, j)
      BY <1>1, <1>5 DEF Heads
    <2>2. HeadAt(g, q, k, j)
      BY <1>1, <2>1, HeadKept
    <2>3. j \in 1..n
      BY <1>3
    <2>4. QED
      BY <2>2, <2>3
  <1>6. QED
    BY <1>4, <1>5

(* Every group that has rows begins with one of the file. *)
LEMMA HeadsKept ==
  ASSUME NEW f, NEW g, NEW row \in LegacyRows, Longer(g, f, row), NEW p \in Readings,
         Heads(f, p), NEW q, RowEffect(q, p, f.shape, Len(f.rows) + 2, row)
  PROVE  Heads(g, q)
  <1> SUFFICES ASSUME NEW k \in Keys, q.groups[k].rows # <<>>
               PROVE  \E j \in DOMAIN g.rows : HeadAt(g, q, k, j)
    BY DEF Heads
  <1>1. LegacyCells(row)
    BY FilesAssumption DEF LegacyCells
  <1>2. CASE Keyed(f.shape, row) /\ Key(row) = k
    <2>1. PICK j \in 1..(Len(f.rows) + 1) : HeadAt(g, q, Key(row), j)
      BY <1>2, HeadOfRow
    <2>2. QED
      BY <1>2, <2>1 DEF HeadAt
  <1>3. CASE ~(Keyed(f.shape, row) /\ Key(row) = k)
    <2>1. q.groups[k] = p.groups[k]
      BY <1>1, <1>3, GroupAfter
    <2>2. PICK j \in DOMAIN f.rows : HeadAt(f, p, k, j)
      BY <2>1 DEF Heads
    <2>3. HeadAt(g, q, k, j)
      BY <2>2, HeadKept
    <2>4. QED
      BY <2>3 DEF HeadAt
  <1>4. QED
    BY <1>2, <1>3

(* A row takes back no error and no account, and reports what it refuses. *)
LEMMA Remembered ==
  ASSUME NEW p \in Readings, NEW q, NEW header, NEW i \in Nat, NEW row,
         RowEffect(q, p, header, i, row)
  PROVE  /\ ToSet(p.errors) \subseteq ToSet(q.errors)
         /\ Refused(p, header, row) => i \in ToSet(q.errors)
         /\ RefsOf(p.accounts) \subseteq RefsOf(q.accounts)
         /\ ToSet(p.accounts) \subseteq ToSet(q.accounts)
         /\ Keyed(header, row) /\ Opens(p, row) =>
              row.ref \in RefsOf(q.accounts) /\ Opened(row) \in ToSet(q.accounts)
  <1>1. p.errors \in Seq(Nat) /\ p.accounts \in Seq(AccountRecords)
    BY DEF Readings
  <1>2. /\ ToSet(p.errors) \subseteq ToSet(q.errors)
        /\ Refused(p, header, row) => i \in ToSet(q.errors)
    <2>1. CASE Refused(p, header, row)
      <3>1. q.errors = Append(p.errors, i)
        BY <2>1 DEF RowEffect
      <3>2. /\ Len(p.errors) \in Nat /\ DOMAIN q.errors = 1..(Len(p.errors) + 1)
            /\ q.errors[Len(p.errors) + 1] = i
            /\ \A j \in DOMAIN p.errors : j \in DOMAIN q.errors /\ q.errors[j] = p.errors[j]
        BY <1>1, <3>1
      <3>3. QED
        BY <3>2 DEF ToSet
    <2>2. CASE ~Refused(p, header, row)
      BY <2>2 DEF RowEffect
    <2>3. QED
      BY <2>1, <2>2
  <1>3. /\ RefsOf(p.accounts) \subseteq RefsOf(q.accounts)
        /\ ToSet(p.accounts) \subseteq ToSet(q.accounts)
        /\ Keyed(header, row) /\ Opens(p, row) =>
             row.ref \in RefsOf(q.accounts) /\ Opened(row) \in ToSet(q.accounts)
    <2>1. CASE Keyed(header, row) /\ Opens(p, row)
      <3>1. q.accounts = Append(p.accounts, Opened(row)) /\ Opened(row).ref = row.ref
        BY <2>1 DEF RowEffect, Opened
      <3> DEFINE m == Len(p.accounts) + 1
      <3>2. /\ m \in DOMAIN q.accounts /\ q.accounts[m] = Opened(row)
            /\ \A j \in DOMAIN p.accounts : j \in DOMAIN q.accounts
                                             /\ q.accounts[j] = p.accounts[j]
        BY <1>1, <3>1
      <3>3. q.accounts[m].ref = row.ref
        BY <3>1, <3>2
      <3> HIDE DEF m
      <3>4. QED
        BY <3>2, <3>3 DEF RefsOf, ToSet
    <2>2. CASE ~(Keyed(header, row) /\ Opens(p, row))
      BY <2>2 DEF RowEffect
    <2>3. QED
      BY <2>1, <2>2
  <1>4. QED
    BY <1>2, <1>3

(* One more row, and all rows are accounted for again. *)
LEMMA AccountedStep ==
  ASSUME NEW f, NEW g, NEW row \in LegacyRows, Longer(g, f, row), NEW p \in Readings,
         Accounted(f, p), NEW q, RowEffect(q, p, f.shape, Len(f.rows) + 2, row)
  PROVE  Accounted(g, q)
  <1> DEFINE n == Len(f.rows) + 1
  <1>1. Counts(f, p) /\ Heads(f, p) /\ Lent(f, p) /\ \A i \in DOMAIN f.rows : Placed(f, p, i)
    BY DEF Accounted
  <1>2. Counts(g, q)
    BY <1>1, CountsKept
  <1>3. Heads(g, q)
    BY <1>1, HeadsKept
  <1>4. /\ Len(f.rows) \in Nat /\ DOMAIN f.rows = 1..Len(f.rows)
        /\ DOMAIN g.rows = 1..n /\ g.rows[n] = row /\ g.shape = f.shape
        /\ \A i \in DOMAIN f.rows : g.rows[i] = f.rows[i]
    BY LongerFile DEF Longer
  <1>5. /\ ToSet(p.errors) \subseteq ToSet(q.errors)
        /\ Refused(p, f.shape, row) => Len(f.rows) + 2 \in ToSet(q.errors)
        /\ RefsOf(p.accounts) \subseteq RefsOf(q.accounts)
        /\ ToSet(p.accounts) \subseteq ToSet(q.accounts)
        /\ Keyed(f.shape, row) /\ Opens(p, row) =>
             row.ref \in RefsOf(q.accounts) /\ Opened(row) \in ToSet(q.accounts)
    <2>1. Len(f.rows) + 2 \in Nat
      BY <1>4
    <2>2. QED
      BY ZenonT(30), <2>1, Remembered
  <1>6. ASSUME NEW i \in DOMAIN f.rows
        PROVE  Placed(g, q, i)
    <2>1. Placed(f, p, i) /\ g.rows[i] = f.rows[i]
      BY <1>1, <1>4
    <2>2. CASE Reported(f, p, i)
      BY <1>5, <2>2 DEF Reported, Placed
    <2>3. CASE Opening(f, p, i)
      <3>1. \A j \in 1..i : j \in DOMAIN f.rows /\ (Lending(g, j) <=> Lending(f, j))
        BY <1>4 DEF Lending
      <3>2. i \in 1..i /\ \A j \in 1..(i - 1) : j \in 1..i
        BY <1>4
      <3>3. Lending(g, i) /\ Opened(g.rows[i]) \in ToSet(q.accounts)
        BY <1>5, <2>1, <2>3, <3>1, <3>2 DEF Opening
      <3>4. \A j \in 1..(i - 1) : ~(Lending(g, j) /\ g.rows[j].ref = g.rows[i].ref)
        BY <1>4, <2>3, <3>1, <3>2 DEF Opening
      <3>5. QED
        BY <3>3, <3>4 DEF Opening, Placed
    <2>4. CASE Paying(f, i)
      BY <1>4, <2>1, <2>4 DEF Paying, Placed
    <2>5. CASE Charging(f, p, i)
      <3>1. PICK j \in 1..i : HeadAt(f, p, Key(f.rows[i]), j)
        BY <2>5 DEF Charging
      <3>2. Key(f.rows[i]) \in Keys
        <4>1. f.rows[i] \in LegacyRows
          BY DEF Longer
        <4>2. QED
          BY <2>5, <4>1, FilesAssumption DEF Charging, Keyed, Key, Keys
      <3>3. PICK k \in Keys : k = Key(f.rows[i])
        BY <3>2
      <3>4. PICK m : m = Len(f.rows) + 2
        OBVIOUS
      <3>5. RowEffect(q, p, f.shape, m, row) /\ HeadAt(f, p, k, j)
        BY <3>1, <3>3, <3>4
      <3>6. HeadAt(g, q, k, j)
        BY <3>5, HeadKept
      <3>7. QED
        BY <1>4, <2>1, <2>5, <3>3, <3>6 DEF Charging, Placed
    <2>6. QED
      BY <2>1, <2>2, <2>3, <2>4, <2>5 DEF Placed
  <1>7. Placed(g, q, n)
    <2>1. n + 1 = Len(f.rows) + 2
      BY <1>4
    <2> HIDE DEF n
    <2>2. CASE Refused(p, f.shape, row)
      BY <1>5, <2>1, <2>2 DEF Reported, Placed
    <2>3. CASE Keyed(f.shape, row) /\ Opens(p, row)
      <3>1. row.ref \notin RefsOf(p.accounts) /\ Opened(row) \in ToSet(q.accounts)
        BY <1>5, <2>3 DEF Opens
      <3>2. Lending(g, n)
        BY <1>4, <2>3 DEF Opens, Lending
      <3>3. \A j \in DOMAIN f.rows : ~(Lending(g, j) /\ g.rows[j].ref = row.ref)
        BY <1>1, <1>4, <3>1 DEF Lent, Lending
      <3>4. \A j \in 1..(n - 1) : j \in DOMAIN f.rows
        BY <1>4 DEF n
      <3>5. QED
        BY <1>4, <3>1, <3>2, <3>3, <3>4 DEF Opening, Placed
    <2>4. CASE Keyed(f.shape, row) /\ row.kind = "payment" /\ row.credito # None
      BY <1>4, <2>4 DEF Paying, Placed
    <2>5. CASE Keyed(f.shape, row) /\ row.kind = "interest" /\ row.debito # None
      <3>1. PICK j \in 1..(Len(f.rows) + 1) : HeadAt(g, q, Key(row), j)
        BY <1>1, <2>5, HeadOfRow
      <3>2. j \in 1..n
        BY <3>1 DEF n
      <3>3. QED
        BY <1>4, <2>5, <3>1, <3>2 DEF Charging, Placed
    <2>6. QED
      BY <2>2, <2>3, <2>4, <2>5 DEF Refused
  <1>8. \A i \in DOMAIN g.rows : Placed(g, q, i)
    <2>1. \A i \in DOMAIN g.rows : i \in DOMAIN f.rows \/ i = n
      BY <1>4
    <2> HIDE DEF n
    <2>2. QED
      BY <1>6, <1>7, <2>1
  <1>9. Lent(g, q)
    <2>1. ASSUME NEW i \in DOMAIN f.rows, Lending(g, i)
          PROVE  g.rows[i].ref \in RefsOf(q.accounts)
      <3>1. Lending(f, i)
        BY <1>4, <2>1 DEF Lending
      <3>2. QED
        BY <1>1, <1>4, <1>5, <3>1 DEF Lent
    <2>2. ASSUME Lending(g, n)
          PROVE  row.ref \in RefsOf(q.accounts)
      <3>1. Keyed(f.shape, row) /\ (Opens(p, row) \/ row.ref \in RefsOf(p.accounts))
        BY <1>4, <2>2 DEF Lending, Opens
      <3>2. QED
        BY <1>5, <3>1
    <2>3. \A i \in DOMAIN g.rows : i \in DOMAIN f.rows \/ i = n
      BY <1>4
    <2> HIDE DEF n
    <2>4. QED
      BY <1>4, <2>1, <2>2, <2>3 DEF Lent
  <1>10. QED
    BY <1>2, <1>3, <1>8, <1>9 DEF Accounted

-----------------------------------------------------------------------------
(* The end of a legacy file. *)

Amount(f, k, kind, column) == AmountIn(f.rows, Counted(f, k, kind, column), column)

PaidOf(f) == {k \in Keys : Amount(f, k, "payment", "credito") # None}

Recorded(f, q, k) ==
  \E i \in DOMAIN q.payments :
    q.payments[i] = [ref |-> k[1], date |-> k[2],
                     amount |-> Amount(f, k, "payment", "credito"),
                     interest |-> OrZero(Amount(f, k, "interest", "debito"))]

RowSettled(f, q, i) ==
  \/ Reported(f, q, i)
  \/ Opening(f, q, i)
  \/ f.rows[i].kind \in {"payment", "interest"} /\ Key(f.rows[i]) \in PaidOf(f)
  \/ \E j \in 1..(i - 1) : f.rows[i].kind = "interest" /\ Reported(f, q, j)
                             /\ Key(f.rows[j]) = Key(f.rows[i])

Settled(f, q) ==
  /\ Len(q.payments) = Cardinality(PaidOf(f))
  /\ \A k \in PaidOf(f) : Recorded(f, q, k)
  /\ \A i \in DOMAIN f.rows : RowSettled(f, q, i)

(* A row that counts makes an amount. *)
LEMMA AmountFound ==
  ASSUME NEW f, f.rows \in Seq(LegacyRows), NEW k, NEW kind,
         NEW column \in {"debito", "credito"}, NEW i \in Counted(f, k, kind, column)
  PROVE  Amount(f, k, kind, column) # None
  <1> DEFINE S == Counted(f, k, kind, column)
             h == [j \in S |-> f.rows[j][column]]
  <1>1. S \in SUBSET DOMAIN f.rows /\ S # {}
    BY DEF Counted
  <1>2. IsFiniteSet(S)
    BY <1>1, IndicesFinite
  <1>3. \A j \in S : h[j] \in Int
    <2>1. SUFFICES ASSUME NEW j \in S PROVE h[j] \in Int
      OBVIOUS
    <2>2. f.rows[j] \in LegacyRows /\ f.rows[j][column] # None
      BY <1>1 DEF Counted
    <2>3. f.rows[j].debito \in Amounts /\ f.rows[j].credito \in Amounts
      BY <2>2, FilesAssumption
    <2>4. QED
      BY <2>2, <2>3 DEF Amounts
  <1>4. DOMAIN h = S
    OBVIOUS
  <1>5. Amount(f, k, kind, column) = SumFunctionOnSet(h, S)
    BY <1>1, <1>4 DEF Amount, AmountIn, SumFunction
  <1> HIDE DEF h, S
  <1>6. SumFunctionOnSet(h, S) \in Int
    BY <1>2, <1>3, SumFacts
  <1>7. QED
    BY <1>5, <1>6, ParsersAssumption

(* The elements of two sequences, one after the other. *)
LEMMA JoinedAt ==
  ASSUME NEW V, NEW s \in Seq(V), NEW t \in Seq(V)
  PROVE  /\ DOMAIN s = 1..Len(s) /\ Len(s) \in Nat
         /\ DOMAIN (s \o t) = 1..(Len(s) + Len(t))
         /\ \A i \in 1..Len(s) : (s \o t)[i] = s[i]
         /\ \A i \in 1..Len(t) : (s \o t)[Len(s) + i] = t[i]
  OBVIOUS

(* The errors at the end: those there were, and the first row of a group   *)
(* with interest only.                                                     *)
LEMMA ErrorsEnded ==
  ASSUME NEW p, Orderly(p), NEW q, NEW paid, NEW orphans, Ended(q, p, paid, orphans)
  PROVE  /\ ToSet(p.errors) \subseteq ToSet(q.errors)
         /\ \A k \in OrphanKeys(p.groups) : p.groups[k].rows[1] \in ToSet(q.errors)
  <1> DEFINE m == Cardinality(OrphanKeys(p.groups))
             t == [i \in 1..m |-> p.groups[orphans[i]].rows[1]]
             V == Nat \union {p.groups[k].rows[1] : k \in OrphanKeys(p.groups)}
  <1>1. OrphanKeys(p.groups) \in SUBSET Touched(p.groups)
    BY DEF Orderly, OrphanKeys, Touched
  <1>2. m \in Nat
    <2>1. IsFiniteSet(Touched(p.groups))
      BY DEF Orderly
    <2>2. QED
      BY <1>1, <2>1, FS_Subset, FS_CardinalityType
  <1>3. q.errors = p.errors \o t /\ orphans \in Bijection(1..m, OrphanKeys(p.groups))
    BY DEF Ended
  <1>4. p.errors \in Seq(Nat)
    BY DEF Orderly, Readings
  <1> HIDE DEF m
  <1>5. \A i \in 1..m : orphans[i] \in OrphanKeys(p.groups)
    BY <1>3 DEF Bijection, Injection
  <1>6. t \in Seq(V)
    <2>1. \A i \in 1..m : p.groups[orphans[i]].rows[1] \in V
      BY <1>5
    <2> HIDE DEF V
    <2>2. QED
      BY <1>2, <2>1
  <1>7. DOMAIN t = 1..m /\ Len(t) = m
    BY <1>2
  <1>8. \A k \in OrphanKeys(p.groups) : \E i \in 1..m : orphans[i] = k
    BY <1>3 DEF Bijection, Surjection
  <1>9. \A k \in OrphanKeys(p.groups) : \E i \in 1..m : t[i] = p.groups[k].rows[1]
    BY <1>8
  <1> HIDE DEF t, V
  <1> DEFINE n == Len(p.errors)
  <1>10. /\ n \in Nat /\ DOMAIN p.errors = 1..n /\ DOMAIN q.errors = 1..(n + m)
         /\ \A i \in 1..n : q.errors[i] = p.errors[i]
         /\ \A i \in 1..m : q.errors[n + i] = t[i]
    <2>1. p.errors \in Seq(V)
      BY <1>4 DEF V
    <2>2. QED
      BY SMTT(30), <1>3, <1>6, <1>7, <2>1, JoinedAt
  <1>11. \A i \in 1..n : i \in DOMAIN q.errors
    BY <1>2, <1>10
  <1>12. \A i \in 1..m : n + i \in DOMAIN q.errors
    BY <1>2, <1>10
  <1> HIDE DEF n
  <1>13. QED
    BY <1>9, <1>10, <1>11, <1>12 DEF ToSet

(* The end of the file settles what was accounted for: every total is one  *)
(* payment, and interest alone is reported at its first row.               *)
LEMMA SettledAtEnd ==
  ASSUME NEW f, f.rows \in Seq(LegacyRows), NEW p, Orderly(p), Accounted(f, p),
         NEW q, NEW paid, NEW orphans, Ended(q, p, paid, orphans)
  PROVE  Settled(f, q)
  <1> DEFINE g == p.groups
             n == Cardinality(PaidKeys(g))
  <1>1. \A k \in Keys : /\ g[k].payment = Amount(f, k, "payment", "credito")
                        /\ g[k].interest = Amount(f, k, "interest", "debito")
    BY DEF Accounted, Counts, Amount
  <1>2. PaidKeys(g) = PaidOf(f)
    BY <1>1 DEF PaidKeys, PaidOf
  <1>3. n \in Nat
    <2>1. PaidKeys(g) \in SUBSET Touched(g) /\ IsFiniteSet(Touched(g))
      BY DEF Orderly, PaidKeys, Touched
    <2>2. QED
      BY <2>1, FS_Subset, FS_CardinalityType
  <1>4. /\ paid \in Bijection(1..n, PaidKeys(g))
        /\ q.payments = [i \in 1..n |-> PaymentOf(g, paid[i])]
        /\ q.accounts = p.accounts
    BY DEF Ended
  <1> HIDE DEF n
  <1>5. Len(q.payments) = Cardinality(PaidOf(f))
    <2>1. Len(q.payments) = n
      BY <1>3, <1>4
    <2>2. QED
      BY <1>2, <2>1 DEF n
  <1>6. ASSUME NEW k \in PaidOf(f)
        PROVE  Recorded(f, q, k)
    <2>1. PICK i \in 1..n : paid[i] = k
      BY <1>2, <1>4 DEF Bijection, Surjection
    <2>2. i \in DOMAIN q.payments /\ q.payments[i] = PaymentOf(g, k)
      BY <1>4, <2>1
    <2>3. k \in Keys
      BY DEF PaidOf
    <2>4. PaymentOf(g, k) = [ref |-> k[1], date |-> k[2],
                             amount |-> Amount(f, k, "payment", "credito"),
                             interest |-> OrZero(Amount(f, k, "interest", "debito"))]
      BY <1>1, <2>3 DEF PaymentOf
    <2>5. QED
      BY <2>2, <2>4 DEF Recorded
  <1>7. /\ ToSet(p.errors) \subseteq ToSet(q.errors)
        /\ \A k \in OrphanKeys(g) : g[k].rows[1] \in ToSet(q.errors)
    BY ErrorsEnded
  <1>8. \A i \in DOMAIN f.rows : Placed(f, p, i) /\ i \in Nat /\ f.rows[i] \in LegacyRows
    BY DEF Accounted
  <1> HIDE DEF g
  <1>9. ASSUME NEW i \in DOMAIN f.rows
        PROVE  RowSettled(f, q, i)
    <2> DEFINE k == Key(f.rows[i])
    <2>1. Placed(f, p, i) /\ i \in Nat
      BY <1>8
    <2>2. CASE Reported(f, p, i)
      BY <1>7, <2>2 DEF Reported, RowSettled
    <2>3. CASE Opening(f, p, i)
      BY <1>4, <2>3 DEF Opening, RowSettled
    <2>4. ASSUME Keyed(f.shape, f.rows[i])
          PROVE  k \in Keys
      <3>1. f.rows[i] \in LegacyRows
        BY <1>8
      <3>2. QED
        BY <2>4, <3>1, FilesAssumption DEF Keyed, Key, Keys
    <2>5. CASE Paying(f, i)
      <3>1. i \in Counted(f, k, "payment", "credito")
        BY <2>5 DEF Paying, Counted
      <3>2. Amount(f, k, "payment", "credito") # None
        BY <3>1, AmountFound
      <3>3. k \in PaidOf(f)
        BY <2>4, <2>5, <3>2 DEF PaidOf, Paying
      <3>4. QED
        BY <2>5, <3>3 DEF Paying, RowSettled
    <2>6. CASE Charging(f, p, i)
      <3>1. k \in Keys
        BY <2>4, <2>6 DEF Charging
      <3>2. i \in Counted(f, k, "interest", "debito")
        BY <2>6 DEF Charging, Counted
      <3>3. g[k].interest # None
        BY <1>1, <3>1, <3>2, AmountFound
      <3>4. CASE k \in PaidOf(f)
        BY <2>6, <3>4 DEF Charging, RowSettled
      <3>5. CASE k \notin PaidOf(f)
        <4>1. k \in OrphanKeys(g)
          BY <1>1, <3>1, <3>3, <3>5 DEF PaidOf, OrphanKeys
        <4>2. PICK j \in 1..i : HeadAt(f, p, k, j)
          BY <2>6 DEF Charging
        <4>3. Reported(f, q, j) /\ Key(f.rows[j]) = k
          BY <1>7, <4>1, <4>2 DEF HeadAt, Reported, g
        <4>4. j = i \/ j \in 1..(i - 1)
          BY <2>1
        <4>5. f.rows[i].kind = "interest"
          BY <2>6 DEF Charging
        <4>6. QED
          BY <4>3, <4>4, <4>5 DEF RowSettled
      <3>6. QED
        BY <3>4, <3>5
    <2>7. QED
      BY <2>1, <2>2, <2>3, <2>5, <2>6 DEF Placed
  <1>10. QED
    BY <1>5, <1>6, <1>9 DEF Settled

(* An empty file is accounted for. *)
LEMMA NothingAccounted ==
  ASSUME NEW f, f.rows = <<>>
  PROVE  Accounted(f, NothingRead)
  <1>1. \A k \in Keys : NothingRead.groups[k] = NoGroup
    BY DEF NothingRead
  <1>2. \A k, kind, column : Counted(f, k, kind, column) = {}
    BY DEF Counted
  <1>3. QED
    BY <1>1, <1>2 DEF Accounted, Counts, Heads, Lent, AmountIn, NoGroup

-----------------------------------------------------------------------------
(* The rows accounted for while the file is read, and settled at its end. *)

AccountInv ==
  file.format = "legacy" =>
    /\ phase = "parse" => Accounted(file, parsed)
    /\ phase = "batch" => Settled(file, parsed)

AccountPart == ReadingInv /\ AccountInv

(* What an upload that is checked comes to. *)
LEMMA AcceptedRest ==
  ASSUME ReadingInv, NEW format, NEW shape, NEW of, Accept(format, shape, of)
  PROVE  \/ phase' = "refused"
         \/ /\ phase' = "parse" /\ parsed' = NothingRead
            /\ file' = [format |-> format, shape |-> shape, of |-> of, rows |-> <<>>]
  <1>1. phase = "upload" /\ parsed = NothingRead
    BY DEF Accept, ReadingInv
  <1>2. QED
    BY <1>1 DEF Accept, Answer

(* Reading a row of a legacy file. *)
LEMMA RowAccounted ==
  ASSUME AccountPart, ReadRow
  PROVE  AccountInv'
  <1>1. phase = "parse" /\ phase' = "parse"
    BY DEF ReadRow
  <1>2. PICK row \in RowAt(NextRow) :
          /\ file' = [file EXCEPT !.rows = Append(file.rows, row)]
          /\ parsed' = IF file.format = "legacy"
                         THEN LegacyRow(parsed, file.shape, Line, row)
                         ELSE NativeRow(parsed, file.shape, Line, row)
    BY DEF ReadRow
  <1>3. ReadingInv /\ parsed \in Readings /\ IsFile(file)
        /\ (LegacyFile(file, parsed) \/ NativeFile(file))
    BY <1>1 DEF AccountPart, ReadingInv
  <1>4. file'.format = file.format /\ file'.shape = file.shape
        /\ file'.rows = Append(file.rows, row)
    BY <1>2, <1>3 DEF IsFile
  <1>5. SUFFICES ASSUME file.format = "legacy" PROVE Accounted(file', parsed')
    BY <1>1, <1>4 DEF AccountInv
  <1>6. LegacyFile(file, parsed)
    BY <1>3, <1>5 DEF NativeFile
  <1>7. row \in LegacyRows /\ LegacyCells(row)
    BY <1>1, <1>3, <1>6, RowTyped
  <1>8. Longer(file', file, row)
    BY <1>4, <1>6 DEF Longer, LegacyFile
  <1>9. PICK m \in Nat : m = Len(file.rows) + 2 /\ Line = m
    BY <1>6 DEF LegacyFile, Line, NextRow
  <1>10. PICK p \in Readings : p = parsed
    BY <1>3
  <1>11. PICK h : h = file.shape
    OBVIOUS
  <1>12. RowEffect(LegacyRow(p, h, m, row), p, h, m, row)
    BY <1>7, LegacyRowEffect
  <1>13. parsed' = LegacyRow(p, h, m, row)
    BY <1>2, <1>5, <1>9, <1>10, <1>11
  <1>14. RowEffect(parsed', p, file.shape, Len(file.rows) + 2, row)
    BY <1>9, <1>11, <1>12, <1>13
  <1>15. Accounted(file, p)
    BY <1>1, <1>5, <1>10 DEF AccountPart, AccountInv
  <1>16. QED
    BY <1>7, <1>8, <1>14, <1>15, AccountedStep

(* Every step keeps the rows accounted for. *)
LEMMA AccountHolds == AccountPart /\ [Next]_vars => AccountPart'
  <1> SUFFICES ASSUME AccountPart, [Next]_vars PROVE AccountPart'
    OBVIOUS
  <1>1. ReadingInv /\ AccountInv /\ ReadingInv'
    BY ReadingHolds DEF AccountPart
  <1>2. CASE phase' \in {"upload", "refused"}
    BY <1>1, <1>2 DEF AccountPart, AccountInv
  <1>3. CASE RefuseDeclared \/ Receive \/ Truncated
    <2>1. phase = "upload" /\ phase' \in {"upload", "refused"}
      BY <1>3 DEF RefuseDeclared, Receive, Truncated, Answer
    <2>2. QED
      BY <1>2, <2>1
  <1>4. ASSUME NEW format, NEW shape, NEW of, Accept(format, shape, of)
        PROVE  AccountPart'
    <2>1. \/ phase' = "refused"
          \/ /\ phase' = "parse" /\ parsed' = NothingRead
             /\ file' = [format |-> format, shape |-> shape, of |-> of, rows |-> <<>>]
      BY <1>1, <1>4, AcceptedRest
    <2>2. CASE phase' = "parse" /\ parsed' = NothingRead /\ file'.rows = <<>>
      <3>1. Accounted(file', NothingRead)
        BY <2>2, NothingAccounted
      <3>2. QED
        BY <1>1, <2>2, <3>1 DEF AccountPart, AccountInv
    <2>3. QED
      BY <1>2, <2>1, <2>2
  <1>5. CASE ReadRow
    BY <1>1, <1>5, RowAccounted DEF AccountPart
  <1>6. CASE EndOfFile
    <2>1. phase = "parse" /\ phase' = "batch" /\ file' = file
          /\ parsed' = IF file.format = "legacy" THEN LegacyEnd(parsed) ELSE parsed
      BY <1>6 DEF EndOfFile
    <2>2. ASSUME file.format = "legacy"
          PROVE  Settled(file, LegacyEnd(parsed))
      <3>1. LegacyFile(file, parsed)
        BY <1>1, <2>1, <2>2 DEF ReadingInv, NativeFile
      <3>2. Orderly(parsed) /\ file.rows \in Seq(LegacyRows) /\ Accounted(file, parsed)
        BY <1>1, <2>1, <2>2, <3>1 DEF LegacyFile, AccountInv
      <3>3. PICK paid, orphans : Ended(LegacyEnd(parsed), parsed, paid, orphans)
        BY <3>2, LegacyEndFields
      <3>4. QED
        BY <3>2, <3>3, SettledAtEnd
    <2>3. QED
      BY <1>1, <2>1, <2>2 DEF AccountPart, AccountInv
  <1>7. CASE \E w \in Workers : \/ \E map \in Mappings : commit(w, map)
                                \/ ImportRef(w) \/ EndCommit(w) \/ Rollback(w)
    <2>1. UNCHANGED <<phase, file, parsed>>
      BY <1>7 DEF commit, Begin, ImportRef, EndCommit, Rollback
    <2>2. QED
      BY <1>1, <2>1 DEF AccountPart, AccountInv
  <1>8. CASE UNCHANGED vars
    <2>1. UNCHANGED <<phase, file, parsed>>
      BY <1>8 DEF vars
    <2>2. QED
      BY <1>1, <2>1 DEF AccountPart, AccountInv
  <1>9. QED
    BY <1>3, <1>4, <1>5, <1>6, <1>7, <1>8 DEF Next

(* Total says of the file what Amount says. *)
LEMMA TotalIs ==
  ASSUME NEW k, NEW kind, NEW column
  PROVE  Total(k[1], k[2], kind, column) = IF k = <<k[1], k[2]>>
                                             THEN Amount(file, k, kind, column)
                                             ELSE Total(k[1], k[2], kind, column)
  <1>1. SUFFICES ASSUME k = <<k[1], k[2]>>
                 PROVE  Total(k[1], k[2], kind, column) = Amount(file, k, kind, column)
    OBVIOUS
  <1> DEFINE S == {i \in DOMAIN file.rows : LET row == file.rows[i] IN
                     Readable(row) /\ row.ref = k[1] /\ row.date = k[2] /\ row.kind = kind
                     /\ row[column] # None}
  <1>2. S = Counted(file, k, kind, column)
    BY <1>1 DEF Counted, Readable, Keyed, Key
  <1>3. Total(k[1], k[2], kind, column)
          = IF S = {} THEN None ELSE SumFunction([i \in S |-> file.rows[i][column]])
    BY DEF Total
  <1> HIDE DEF S
  <1>4. QED
    BY <1>2, <1>3 DEF Amount, AmountIn

(* That is what EveryRowAccounted says. *)
LEMMA SettledMeans ==
  ASSUME Settled(file, parsed)
  PROVE  EveryRowAccounted
  <1>1. \A k \in Keys : k = <<k[1], k[2]>>
    BY DEF Keys
  <1>2. \A k \in Keys : /\ Total(k[1], k[2], "payment", "credito")
                             = Amount(file, k, "payment", "credito")
                        /\ Total(k[1], k[2], "interest", "debito")
                             = Amount(file, k, "interest", "debito")
    BY <1>1, TotalIs
  <1>3. PaidOf(file) = {k \in Keys : Total(k[1], k[2], "payment", "credito") # None}
    BY <1>2 DEF PaidOf
  <1>4. \A k \in PaidOf(file) : \E i \in DOMAIN parsed.payments :
          parsed.payments[i] =
            [ref |-> k[1], date |-> k[2], amount |-> Total(k[1], k[2], "payment", "credito"),
             interest |-> OrZero(Total(k[1], k[2], "interest", "debito"))]
    <2>1. SUFFICES ASSUME NEW k \in PaidOf(file)
                   PROVE  \E i \in DOMAIN parsed.payments :
            parsed.payments[i] =
              [ref |-> k[1], date |-> k[2], amount |-> Total(k[1], k[2], "payment", "credito"),
               interest |-> OrZero(Total(k[1], k[2], "interest", "debito"))]
      OBVIOUS
    <2>2. Recorded(file, parsed, k) /\ k \in Keys
      BY DEF Settled, PaidOf
    <2>3. QED
      BY <1>2, <2>2 DEF Recorded
  <1> DEFINE Says(i) == LET row == file.rows[i] IN
          \/ i + 1 \in ToSet(parsed.errors)
          \/ OpensAccount(i)
          \/ row.kind \in {"payment", "interest"} /\ <<row.ref, row.date>> \in PaidOf(file)
          \/ \E j \in 1..(i - 1) : row.kind = "interest" /\ j + 1 \in ToSet(parsed.errors)
                                     /\ file.rows[j].ref = row.ref
                                     /\ file.rows[j].date = row.date
  <1>5. \A i \in DOMAIN file.rows : Says(i)
    <2>1. SUFFICES ASSUME NEW i \in DOMAIN file.rows PROVE Says(i)
      OBVIOUS
    <2>2. RowSettled(file, parsed, i)
      BY DEF Settled
    <2>3. CASE Opening(file, parsed, i)
      <3>1. \A j : Disburses(j) <=> Lending(file, j)
        BY DEF Disburses, Lending, Readable, Keyed
      <3>2. QED
        BY <2>3, <3>1 DEF Opening, Opened, OpensAccount
    <2>4. CASE ~Opening(file, parsed, i)
      BY <2>2, <2>4 DEF RowSettled, Reported, Key
    <2>5. QED
      BY <2>3, <2>4
  <1>6. Len(parsed.payments) = Cardinality(PaidOf(file))
    BY DEF Settled
  <1>7. QED
    BY <1>3, <1>4, <1>5, <1>6 DEF EveryRowAccounted

(* Whatever the order of the rows, every amount of a legacy file that can  *)
(* be read ends in the one payment of its reference and date, or in an     *)
(* account, or its row is reported (legacy_ledger_csv.py:96-207).          *)
THEOREM EveryRowAlwaysAccounted == Spec => []EveryRowAccounted
  <1>1. Init => AccountPart
    BY NothingReadOrderly DEF Init, ReadingInv, Orderly, AccountPart, AccountInv
  <1>2. AccountPart => EveryRowAccounted
    BY SettledMeans DEF AccountPart, AccountInv, EveryRowAccounted
  <1>3. QED
    BY <1>1, <1>2, AccountHolds, PTL DEF Spec

-----------------------------------------------------------------------------
(* What an export says. *)

(* The account of a ledger as it reads back. *)
AccountOf(l) ==
  [ref |-> l.ref, borrow_amount |-> l.borrow_amount, start_date |-> l.start_date,
   rate |-> l.rate, name |-> SuggestedName(sanitize_cell(l.name))]

PaidAs(l, q) == [ref |-> l.ref, date |-> q.date, amount |-> q.amount, interest |-> q.interest]

(* A name reads back, unless it began with a quote before a formula sign. *)
LEMMA NameRestored ==
  ASSUME NEW name \in Seq(Letters)
  PROVE  restore_cell(sanitize_cell(name)) = name \/ Quoted(name)
  <1>1. CASE name # <<>> /\ Head(name) \in FormulaStarts
    <2> DEFINE cell == <<"'">> \o name
    <2>1. sanitize_cell(name) = cell
      BY <1>1 DEF sanitize_cell
    <2>2. "'" \in Letters
      BY ParsersAssumption
    <2>3. PICK c \in Letters : c = "'"
      BY <2>2
    <2>4. cell = <<c>> \o name
      BY <2>3
    <2>5. Len(name) \in Nat /\ Len(name) >= 1 /\ Head(name) = name[1]
      BY <1>1
    <2>6. <<c>> \in Seq(Letters)
      OBVIOUS
    <2>7. /\ Len(<<c>> \o name) = Len(name) + 1
          /\ (<<c>> \o name)[1] = c
          /\ (<<c>> \o name)[2] = name[1]
          /\ Tail(<<c>> \o name) = name
      BY <2>5, <2>6
    <2> HIDE DEF cell
    <2>8. Len(cell) >= 2 /\ cell[1] = "'" /\ cell[2] \in FormulaStarts /\ Tail(cell) = name
      BY <1>1, <2>3, <2>4, <2>5, <2>7
    <2>9. restore_cell(cell) = name
      BY <2>8 DEF restore_cell
    <2>10. QED
      BY <2>1, <2>9
  <1>2. CASE ~(name # <<>> /\ Head(name) \in FormulaStarts)
    <2>1. sanitize_cell(name) = name
      BY <1>2 DEF sanitize_cell
    <2>2. QED
      BY <2>1 DEF Quoted
  <1>3. QED
    BY <1>1, <1>2

(* So does an account: its name is not empty, so none is made up. *)
LEMMA AccountRestored ==
  ASSUME NEW l \in ExportedLedger
  PROVE  SameAccount(AccountOf(l), l)
  <1>1. l.name \in Seq(Letters) /\ l.name # <<>>
    BY DEF ExportedLedger
  <1>2. restore_cell(sanitize_cell(l.name)) = l.name \/ Quoted(l.name)
    BY <1>1, NameRestored
  <1>3. SuggestedName(sanitize_cell(l.name)) = l.name \/ Quoted(l.name)
    BY <1>1, <1>2 DEF SuggestedName
  <1>4. QED
    BY <1>3 DEF SameAccount, AccountOf

(* The ledgers of an export. *)
LEMMA LedgersTyped ==
  ASSUME NEW of \in Ledgers, of # <<>>
  PROVE  /\ of \in Seq(ExportedLedger) /\ Len(of) \in Nat /\ DOMAIN of = 1..Len(of)
         /\ \A i \in DOMAIN of : of[i] \in ExportedLedger
         /\ 1 \in DOMAIN of /\ of[1] \in ExportedLedger
         /\ \A i, j \in DOMAIN of : of[i].ref = of[j].ref => i = j
  <1>1. of \in Seq(ExportedLedger) /\ \A i, j \in DOMAIN of : of[i].ref = of[j].ref => i = j
    BY FilesAssumption
  <1>2. /\ Len(of) \in Nat /\ DOMAIN of = 1..Len(of)
        /\ \A i \in DOMAIN of : of[i] \in ExportedLedger /\ 1 \in DOMAIN of
    BY <1>1
  <1>3. QED
    BY <1>1, <1>2

(* What is exported can be told from an empty cell. *)
LEMMA CellNotNone ==
  /\ \A r \in Refs : r # None
  /\ \A a \in AccountCellSet : a # None
  <1>1. Refs \subseteq Nat /\ None \notin Int /\ None \notin AccountCellSet
    BY ParsersAssumption
  <1>2. \A r \in Refs : r # None
    BY <1>1
  <1>3. \A a \in AccountCellSet : a # None
    BY <1>1
  <1>4. QED
    BY <1>2, <1>3

(* The rows of the three exports. *)
LEMMA AccountsExport ==
  ASSUME NEW of \in Ledgers, of # <<>>
  PROVE  /\ DOMAIN Export("accounts", of) = DOMAIN of
         /\ \A i \in DOMAIN of :
              /\ Export("accounts", of)[i].ref = of[i].ref
              /\ ~NoAccount(Export("accounts", of)[i])
              /\ NativeAccount(Export("accounts", of)[i]) = AccountOf(of[i])
  <1>1. Export("accounts", of)
          = [i \in DOMAIN of |-> ExportRow(of[i], AccountCells(of[i]), NoPayment)]
    BY DEF Export, export_accounts_csv
  <1>2. ASSUME NEW i \in DOMAIN of
        PROVE  LET row == ExportRow(of[i], AccountCells(of[i]), NoPayment)
               IN  row.ref = of[i].ref /\ ~NoAccount(row) /\ NativeAccount(row) = AccountOf(of[i])
    <2>1. of[i] \in ExportedLedger
      BY LedgersTyped
    <2>2. of[i].ref \in Refs /\ AccountCells(of[i]) \in AccountCellSet
      BY <2>1, AccountCellsTyped DEF ExportedLedger
    <2>3. of[i].ref # None /\ AccountCells(of[i]) # None
      BY <2>2, CellNotNone
    <2>4. QED
      BY <2>3 DEF ExportRow, NoAccount, NativeAccount, AccountCells, AccountOf
  <1>3. QED
    BY <1>1, <1>2

(* Rows of full.csv: the account in each, and a payment unless there is    *)
(* none.                                                                   *)
LEMMA FullExport ==
  ASSUME NEW of \in Ledgers, of # <<>>
  PROVE  LET E == Export("full", of)
             l == of[1]
         IN  /\ DOMAIN E = IF l.payments = <<>> THEN {1} ELSE DOMAIN l.payments
             /\ \A j \in DOMAIN E :
                  /\ E[j].ref = l.ref /\ ~NoAccount(E[j]) /\ NativeAccount(E[j]) = AccountOf(l)
                  /\ IF l.payments = <<>>
                       THEN E[j].date = Blank
                       ELSE /\ E[j].date # Blank /\ ~NotPaid(E[j])
                            /\ NativePayment(E[j]) = PaidAs(l, l.payments[j])
  <1> DEFINE E == Export("full", of)
             l == of[1]
  <1>1. l \in ExportedLedger
    BY LedgersTyped
  <1>2. l.ref \in Refs /\ AccountCells(l) \in AccountCellSet
    BY <1>1, AccountCellsTyped DEF ExportedLedger
  <1>3. l.ref # None /\ AccountCells(l) # None
    BY <1>2, CellNotNone
  <1>4. \A p : /\ ExportRow(l, AccountCells(l), p).ref = l.ref
               /\ ~NoAccount(ExportRow(l, AccountCells(l), p))
               /\ NativeAccount(ExportRow(l, AccountCells(l), p)) = AccountOf(l)
    BY <1>3 DEF ExportRow, NoAccount, NativeAccount, AccountCells, AccountOf
  <1>5. CASE l.payments = <<>>
    <2>1. E = <<ExportRow(l, AccountCells(l), NoPayment)>>
      BY <1>5 DEF Export, export_account_full_csv
    <2>2. DOMAIN E = {1} /\ E[1] = ExportRow(l, AccountCells(l), NoPayment)
      BY <2>1
    <2>3. ExportRow(l, AccountCells(l), NoPayment).date = Blank
      BY DEF ExportRow, NoPayment
    <2> HIDE DEF E, l
    <2>4. QED
      BY <1>4, <1>5, <2>2, <2>3 DEF E, l
  <1>6. CASE l.payments # <<>>
    <2>1. E = [j \in DOMAIN l.payments |-> ExportRow(l, AccountCells(l), l.payments[j])]
      BY <1>6 DEF Export, export_account_full_csv
    <2>2. ASSUME NEW j \in DOMAIN l.payments
          PROVE  LET row == ExportRow(l, AccountCells(l), l.payments[j])
                 IN  /\ row.date # Blank /\ ~NotPaid(row)
                     /\ NativePayment(row) = PaidAs(l, l.payments[j])
      <3>1. PICK q \in PaymentCells : q = l.payments[j]
        BY <1>1, PaymentsOfLedger
      <3>2. q.date \in Nat /\ q.amount \in Int /\ q.interest \in Int
        BY ParsersAssumption DEF PaymentCells
      <3>3. q.date # Blank /\ q.date # None /\ q.amount # None /\ q.interest # None
        BY <3>2, ParsersAssumption
      <3>4. QED
        BY <1>3, <3>1, <3>3 DEF ExportRow, NotPaid, NativePayment, PaidAs, OrZero
    <2>3. QED
      BY <1>4, <1>6, <2>1, <2>2
  <1>7. QED
    BY <1>5, <1>6

(* Rows of payments.csv are the payments of the ledgers, each once. *)
LEMMA PaymentsExport ==
  ASSUME NEW of \in Ledgers, of # <<>>
  PROVE  LET E == Export("payments", of)
         IN  /\ DOMAIN E = 1..Cardinality(Cells(of))
             /\ Cardinality(Cells(of)) \in Nat
             /\ \A m \in DOMAIN E : E[m].date # Blank /\ ~NotPaid(E[m])
             /\ \A i \in DOMAIN of : \A j \in DOMAIN of[i].payments :
                  \E m \in DOMAIN E : NativePayment(E[m]) = PaidAs(of[i], of[i].payments[j])
  <1> DEFINE E == Export("payments", of)
             n == Cardinality(Cells(of))
  <1>1. of \in Seq(ExportedLedger) /\ \A i \in DOMAIN of : of[i] \in ExportedLedger
    BY LedgersTyped
  <1>2. PICK ordered \in Bijection(1..n, Cells(of)) :
          export_payments_csv(of)
            = [m \in 1..n |-> ExportRow(of[ordered[m][1]], None, Entry(of, ordered[m]))]
    BY <1>1, PaymentRows
  <1>3. E = [m \in 1..n |-> ExportRow(of[ordered[m][1]], None, Entry(of, ordered[m]))]
    BY <1>2 DEF Export
  <1>4. n \in Nat
    BY <1>1, CellsFinite, FS_CardinalityType
  <1> HIDE DEF E, n
  <1>5. ASSUME NEW i \in DOMAIN of, NEW j \in DOMAIN of[i].payments
        PROVE  LET row == ExportRow(of[i], None, of[i].payments[j])
               IN  /\ row.date # Blank /\ ~NotPaid(row)
                   /\ NativePayment(row) = PaidAs(of[i], of[i].payments[j])
    <2>1. PICK l \in ExportedLedger : l = of[i]
      BY <1>1
    <2>2. PICK q \in PaymentCells : q = l.payments[j]
      BY <2>1, PaymentsOfLedger
    <2>3. q.date \in Nat /\ q.amount \in Int /\ q.interest \in Int /\ l.ref \in Nat
      BY ParsersAssumption DEF PaymentCells, ExportedLedger
    <2>4. /\ q.date # Blank /\ q.date # None /\ q.amount # None /\ q.interest # None
          /\ l.ref # None
      BY <2>3, ParsersAssumption
    <2>5. QED
      BY <2>1, <2>2, <2>4 DEF ExportRow, NotPaid, NativePayment, PaidAs, OrZero
  <1>6. ASSUME NEW m \in 1..n
        PROVE  E[m].date # Blank /\ ~NotPaid(E[m])
    <2>1. ordered[m] \in Cells(of)
      BY DEF Bijection, Injection
    <2>2. PICK i \in DOMAIN of : \E j \in DOMAIN of[i].payments : ordered[m] = <<i, j>>
      BY <1>1, <2>1, CellsOf
    <2>3. PICK j \in DOMAIN of[i].payments : ordered[m] = <<i, j>>
      BY <2>2
    <2>4. E[m] = ExportRow(of[i], None, of[i].payments[j])
      BY <1>3, <2>3 DEF Entry
    <2>5. QED
      BY <1>5, <2>4
  <1>7. ASSUME NEW i \in DOMAIN of, NEW j \in DOMAIN of[i].payments
        PROVE  \E m \in 1..n : NativePayment(E[m]) = PaidAs(of[i], of[i].payments[j])
    <2>1. <<i, j>> \in Cells(of)
      BY <1>1, CellsOf
    <2>2. PICK m \in 1..n : ordered[m] = <<i, j>>
      BY <2>1 DEF Bijection, Surjection
    <2>3. E[m] = ExportRow(of[i], None, of[i].payments[j])
      BY <1>3, <2>2 DEF Entry
    <2>4. QED
      BY <1>5, <2>3
  <1>8. DOMAIN E = 1..n
    BY <1>3
  <1>9. QED
    BY <1>4, <1>6, <1>7, <1>8 DEF E, n

-----------------------------------------------------------------------------
(* How many payments there are. *)

CellsUpTo(of, n) == UNION {{i} \X DOMAIN of[i].payments : i \in 1..n}

(* There are as many places as the ledgers have payments: by the least     *)
(* number of ledgers for which there are not.                              *)
LEMMA CellsCounted ==
  ASSUME NEW of \in Seq(ExportedLedger)
  PROVE  Cardinality(Cells(of)) = SumFunction([i \in DOMAIN of |-> Len(of[i].payments)])
  <1> DEFINE f == [i \in DOMAIN of |-> Len(of[i].payments)]
             Good(n) == /\ IsFiniteSet(CellsUpTo(of, n))
                        /\ Cardinality(CellsUpTo(of, n)) = SumFunctionOnSet(f, 1..n)
             Bad == {n \in 0..Len(of) : ~Good(n)}
  <1>1. Len(of) \in Nat /\ DOMAIN of = 1..Len(of)
    OBVIOUS
  <1>2. \A i \in DOMAIN of : /\ of[i] \in ExportedLedger /\ f[i] \in Nat
                             /\ DOMAIN of[i].payments = 1..f[i]
    <2>1. SUFFICES ASSUME NEW i \in DOMAIN of
                   PROVE  of[i] \in ExportedLedger /\ f[i] \in Nat
                          /\ DOMAIN of[i].payments = 1..f[i]
      OBVIOUS
    <2>2. of[i] \in ExportedLedger
      OBVIOUS
    <2>3. of[i].payments \in Seq(PaymentCells)
      BY <2>2, PaymentsOfLedger
    <2>4. QED
      BY <2>2, <2>3
  <1>3. DOMAIN f = DOMAIN of
    OBVIOUS
  <1> HIDE DEF f
  <1>4. Good(0)
    <2>1. 1..0 = {}
      OBVIOUS
    <2>2. CellsUpTo(of, 0) = {}
      BY <2>1 DEF CellsUpTo
    <2>3. IsFiniteSet({}) /\ Cardinality({}) = 0
      BY FS_EmptySet
    <2>4. SumFunctionOnSet(f, {}) = 0
      BY <2>3, SumFacts
    <2>5. QED
      BY <2>1, <2>2, <2>3, <2>4
  <1>5. ASSUME NEW n \in Nat, n + 1 <= Len(of), Good(n)
        PROVE  Good(n + 1)
    <2> DEFINE A == CellsUpTo(of, n)
               B == {n + 1} \X DOMAIN of[n + 1].payments
    <2>1. n + 1 \in DOMAIN of /\ f[n + 1] \in Nat /\ DOMAIN of[n + 1].payments = 1..f[n + 1]
      <3>1. n + 1 \in DOMAIN of
        BY <1>1, <1>5
      <3>2. QED
        BY <1>2, <3>1
    <2>2. 1..(n + 1) = (1..n) \union {n + 1} /\ n + 1 \notin 1..n
      OBVIOUS
    <2>3. CellsUpTo(of, n + 1) = A \union B
      BY <2>2 DEF CellsUpTo
    <2>4. A \intersect B = {}
      <3>1. \A p \in A : \E i \in 1..n : p[1] = i
        BY DEF CellsUpTo
      <3>2. \A p \in B : p[1] = n + 1
        OBVIOUS
      <3> HIDE DEF A, B
      <3>3. QED
        BY <2>2, <3>1, <3>2
    <2>5. IsFiniteSet(B) /\ Cardinality(B) = f[n + 1]
      <3> DEFINE D == DOMAIN of[n + 1].payments
      <3>1. IsFiniteSet(D) /\ Cardinality(D) = f[n + 1]
        <4>1. PICK c \in Nat : c = f[n + 1]
          BY <2>1
        <4>2. IsFiniteSet(1..c) /\ Cardinality(1..c) = IF 1 > c THEN 0 ELSE c - 1 + 1
          BY FS_Interval
        <4>3. Cardinality(1..c) = c
          BY <4>2
        <4>4. QED
          BY <2>1, <4>1, <4>2, <4>3
      <3> DEFINE x == n + 1
      <3>2. IsFiniteSet({x}) /\ Cardinality({x}) = 1
        BY FS_Singleton
      <3> HIDE DEF D, x
      <3>3. IsFiniteSet({x} \X D) /\ Cardinality({x} \X D) = Cardinality({x}) * Cardinality(D)
        BY <3>1, <3>2, FS_Product
      <3>4. Cardinality({x} \X D) = f[n + 1]
        BY <2>1, <3>1, <3>2, <3>3
      <3>5. QED
        BY <3>3, <3>4 DEF x, D
    <2> HIDE DEF A, B
    <2>6. IsFiniteSet(A) /\ Cardinality(A) = SumFunctionOnSet(f, 1..n)
      BY <1>5 DEF A
    <2>7. IsFiniteSet(A \union B)
          /\ Cardinality(A \union B) = Cardinality(A) + Cardinality(B)
      <3>1. /\ IsFiniteSet(A \union B)
            /\ Cardinality(A \union B) = Cardinality(A) + Cardinality(B)
                                           - Cardinality(A \intersect B)
        BY <2>5, <2>6, FS_Union
      <3>2. Cardinality(A \intersect B) = 0
        BY <2>4, FS_EmptySet
      <3>3. Cardinality(A) \in Nat /\ Cardinality(B) \in Nat
        BY <2>5, <2>6, FS_CardinalityType
      <3>4. QED
        BY <3>1, <3>2, <3>3
    <2>8. SumFunctionOnSet(f, 1..(n + 1)) = f[n + 1] + SumFunctionOnSet(f, 1..n)
      <3> DEFINE S == 1..(n + 1)
                 x == n + 1
      <3>1. IsFiniteSet(S)
        BY FS_Interval
      <3>2. \A i \in S : f[i] \in Int
        <4>1. \A i \in S : i \in DOMAIN of
          BY <1>1, <1>5
        <4>2. QED
          BY <1>2, <4>1
      <3>3. x \in S /\ S \ {x} = 1..n
        OBVIOUS
      <3> HIDE DEF S, x
      <3>4. SumFunctionOnSet(f, S) = f[x] + SumFunctionOnSet(f, S \ {x})
        BY <3>1, <3>2, <3>3, SumFacts
      <3>5. QED
        BY <3>3, <3>4 DEF S, x
    <2>9. Cardinality(A) \in Nat
      BY <2>6, FS_CardinalityType
    <2>10. Cardinality(A \union B) = SumFunctionOnSet(f, 1..(n + 1))
      <3>1. PICK a \in Nat : a = Cardinality(A)
        BY <2>9
      <3>2. PICK c \in Nat : c = f[n + 1]
        BY <2>1
      <3>3. Cardinality(A \union B) = a + c
        BY <2>5, <2>7, <3>1, <3>2
      <3>4. SumFunctionOnSet(f, 1..(n + 1)) = c + a
        BY <2>6, <2>8, <3>1, <3>2
      <3>5. QED
        BY <3>3, <3>4
    <2>11. QED
      BY <2>3, <2>7, <2>10
  <1> HIDE DEF Good
  <1>6. Bad = {}
    <2>1. SUFFICES ASSUME Bad # {} PROVE FALSE
      OBVIOUS
    <2>2. Bad \in SUBSET Nat
      OBVIOUS
    <2>3. PICK n \in Bad : \A m \in Bad : n <= m
      BY <2>1, <2>2, LeastExists
    <2>4. n # 0 /\ n \in Nat /\ n <= Len(of)
      BY <1>1, <1>4, <2>3
    <2>5. n - 1 \in Nat /\ n - 1 \in 0..Len(of) /\ ~(n <= n - 1)
      BY <1>1, <2>4
    <2>6. Good(n - 1)
      BY <2>3, <2>5
    <2>7. (n - 1) + 1 = n
      BY <2>4
    <2>8. Good(n)
      BY <1>5, <2>4, <2>5, <2>6, <2>7
    <2>9. QED
      BY <2>3, <2>8
  <1>7. Good(Len(of))
    <2>1. Len(of) \in 0..Len(of)
      BY <1>1
    <2>2. QED
      BY <1>6, <2>1
  <1>8. CellsUpTo(of, Len(of)) = Cells(of)
    BY <1>1 DEF CellsUpTo, Cells
  <1>9. SumFunction(f) = SumFunctionOnSet(f, 1..Len(of))
    BY <1>1, <1>3 DEF SumFunction
  <1>10. QED
    BY <1>7, <1>8, <1>9 DEF Good, f

-----------------------------------------------------------------------------
(* An export that is read back. *)

(* After n rows of an export, of the accounts and of the payments. *)
AccountsRead(f, p, n) ==
  IF f.shape = "accounts"
    THEN Len(p.accounts) = n /\ \A i \in 1..n : p.accounts[i] = AccountOf(f.of[i])
    ELSE IF n = 0 THEN p.accounts = <<>>
         ELSE Len(p.accounts) = 1 /\ p.accounts[1] = AccountOf(f.of[1])

PaymentsRead(f, p, n) ==
  IF f.shape = "full" /\ f.of[1].payments = <<>>
    THEN p.payments = <<>>
    ELSE Len(p.payments) = n
         /\ \A i \in 1..n : p.payments[i] = NativePayment(Export(f.shape, f.of)[i])

ReadBack(f, p, n) ==
  /\ 1..n \subseteq DOMAIN Export(f.shape, f.of)
  /\ p.errors = <<>>
  /\ f.shape # "payments" => AccountsRead(f, p, n)
  /\ f.shape # "accounts" => PaymentsRead(f, p, n)

(* The two parts of a native row. *)
AccountEffect(r, acc, i, row) ==
  /\ r.payments = acc.payments /\ r \in Readings
  /\ r.errors = IF NoAccount(row) THEN Append(acc.errors, i) ELSE acc.errors
  /\ r.accounts = IF ~NoAccount(row) /\ row.ref \notin RefsOf(acc.accounts)
                    THEN Append(acc.accounts, NativeAccount(row)) ELSE acc.accounts

(* WithAccount as one predicate. *)
LEMMA WithAccountEffect ==
  ASSUME NEW acc \in Readings, NEW i \in Nat, NEW row, NativeCells(row)
  PROVE  AccountEffect(WithAccount(acc, i, row), acc, i, row)
  <1> DEFINE r == WithAccount(acc, i, row)
  <1>1. /\ r.payments = acc.payments
        /\ r.errors = IF NoAccount(row) THEN Append(acc.errors, i) ELSE acc.errors
        /\ r.accounts = IF ~NoAccount(row) /\ row.ref \notin RefsOf(acc.accounts)
                          THEN Append(acc.accounts, NativeAccount(row)) ELSE acc.accounts
        /\ r \in Readings
    BY WithAccountFields
  <1> HIDE DEF r
  <1>2. AccountEffect(r, acc, i, row)
    BY <1>1 DEF AccountEffect
  <1>3. QED
    BY <1>2 DEF r

PaymentEffect(r, acc, shape, i, row) ==
  /\ r.accounts = acc.accounts /\ r \in Readings
  /\ r.errors = IF ~(shape = "full" /\ row.date = Blank) /\ NotPaid(row)
                  THEN Append(acc.errors, i) ELSE acc.errors
  /\ r.payments = IF ~(shape = "full" /\ row.date = Blank) /\ ~NotPaid(row)
                    THEN Append(acc.payments, NativePayment(row)) ELSE acc.payments

(* WithPayment as one predicate. *)
LEMMA WithPaymentEffect ==
  ASSUME NEW acc \in Readings, NEW shape, NEW i \in Nat, NEW row, NativeCells(row)
  PROVE  PaymentEffect(WithPayment(acc, shape, i, row), acc, shape, i, row)
  <1> DEFINE r == WithPayment(acc, shape, i, row)
  <1>1. /\ r.accounts = acc.accounts
        /\ r.errors = IF ~(shape = "full" /\ row.date = Blank) /\ NotPaid(row)
                        THEN Append(acc.errors, i) ELSE acc.errors
        /\ r.payments = IF ~(shape = "full" /\ row.date = Blank) /\ ~NotPaid(row)
                          THEN Append(acc.payments, NativePayment(row)) ELSE acc.payments
        /\ r \in Readings
    BY WithPaymentFields
  <1> HIDE DEF r
  <1>2. PaymentEffect(r, acc, shape, i, row)
    BY <1>1 DEF PaymentEffect
  <1>3. QED
    BY <1>2 DEF r

(* A sequence and one more element. *)
LEMMA AppendAt ==
  ASSUME NEW V, NEW s \in Seq(V), NEW v \in V
  PROVE  /\ Len(s) \in Nat /\ Len(Append(s, v)) = Len(s) + 1
         /\ Append(s, v)[Len(s) + 1] = v
         /\ \A i \in 1..Len(s) : Append(s, v)[i] = s[i]
  OBVIOUS

(* A reading grows by a record: it still is a reading, so the record has   *)
(* its type.                                                               *)
LEMMA AppendedPayment ==
  ASSUME NEW acc \in Readings, NEW r \in Readings, NEW v, r.payments = Append(acc.payments, v)
  PROVE  /\ Len(acc.payments) \in Nat /\ Len(r.payments) = Len(acc.payments) + 1
         /\ r.payments[Len(acc.payments) + 1] = v
         /\ \A i \in 1..Len(acc.payments) : r.payments[i] = acc.payments[i]
  <1>1. acc.payments \in Seq(PaymentRecords)
    BY DEF Readings
  <1>2. acc.payments \in Seq(PaymentRecords \union {v})
    BY <1>1
  <1>3. QED
    BY <1>2, AppendAt

(* The same of an account. *)
LEMMA AppendedAccount ==
  ASSUME NEW acc \in Readings, NEW r \in Readings, NEW v, r.accounts = Append(acc.accounts, v)
  PROVE  /\ Len(acc.accounts) \in Nat /\ Len(r.accounts) = Len(acc.accounts) + 1
         /\ r.accounts[Len(acc.accounts) + 1] = v
         /\ \A i \in 1..Len(acc.accounts) : r.accounts[i] = acc.accounts[i]
  <1>1. acc.accounts \in Seq(AccountRecords)
    BY DEF Readings
  <1>2. acc.accounts \in Seq(AccountRecords \union {v})
    BY <1>1
  <1>3. QED
    BY <1>2, AppendAt

(* Row n + 1 of an export of f. *)
NextOf(f, n, row) ==
  /\ n + 1 \in DOMAIN Export(f.shape, f.of)
  /\ row = Export(f.shape, f.of)[n + 1]

(* The next row of an export adds its account, or finds it there. *)
LEMMA AccountsGrow ==
  ASSUME NEW f, f.of \in Ledgers, f.of # <<>>, f.shape \in {"accounts", "full"},
         NEW n \in Nat, 1..n \subseteq DOMAIN Export(f.shape, f.of),
         NEW p \in Readings, AccountsRead(f, p, n), p.errors = <<>>,
         NEW row, NativeCells(row), NextOf(f, n, row), NEW i, NEW r, AccountEffect(r, p, i, row)
  PROVE  AccountsRead(f, r, n + 1) /\ r.errors = <<>>
  <1>1. CASE f.shape = "accounts"
    <2>1. /\ DOMAIN Export("accounts", f.of) = DOMAIN f.of
          /\ n + 1 \in DOMAIN f.of
          /\ row.ref = f.of[n + 1].ref /\ ~NoAccount(row)
          /\ NativeAccount(row) = AccountOf(f.of[n + 1])
      BY <1>1, AccountsExport DEF NextOf
    <2>2. Len(p.accounts) = n /\ \A j \in 1..n : p.accounts[j] = AccountOf(f.of[j])
      BY <1>1 DEF AccountsRead
    <2>3. row.ref \notin RefsOf(p.accounts)
      <3>1. SUFFICES ASSUME row.ref \in RefsOf(p.accounts) PROVE FALSE
        OBVIOUS
      <3>2. DOMAIN p.accounts = 1..n
        <4>1. p.accounts \in Seq(AccountRecords)
          BY DEF Readings
        <4>2. QED
          BY <2>2, <4>1
      <3>3. PICK j \in 1..n : p.accounts[j].ref = row.ref
        BY <3>1, <3>2 DEF RefsOf
      <3>4. \A l : AccountOf(l).ref = l.ref
        BY DEF AccountOf
      <3>5. p.accounts[j] = AccountOf(f.of[j])
        BY <2>2
      <3>6. f.of[j].ref = f.of[n + 1].ref
        BY <2>1, <3>3, <3>4, <3>5
      <3>7. j \in DOMAIN f.of
        BY <1>1, <2>1
      <3>8. j = n + 1
        BY <2>1, <3>6, <3>7, LedgersTyped
      <3>9. QED
        BY <3>8
    <2>4. r.accounts = Append(p.accounts, NativeAccount(row)) /\ r.errors = <<>>
          /\ r \in Readings
      BY <2>1, <2>3 DEF AccountEffect
    <2>5. /\ Len(r.accounts) = n + 1 /\ r.accounts[n + 1] = NativeAccount(row)
          /\ \A j \in 1..n : r.accounts[j] = p.accounts[j]
      BY <2>2, <2>4, AppendedAccount
    <2>6. \A j \in 1..(n + 1) : j \in 1..n \/ j = n + 1
      OBVIOUS
    <2>7. \A j \in 1..(n + 1) : r.accounts[j] = AccountOf(f.of[j])
      BY <2>1, <2>2, <2>5, <2>6
    <2>8. QED
      BY <1>1, <2>4, <2>5, <2>7 DEF AccountsRead
  <1>2. CASE f.shape = "full"
    <2>1. row.ref = f.of[1].ref /\ ~NoAccount(row) /\ NativeAccount(row) = AccountOf(f.of[1])
      BY <1>2, FullExport DEF NextOf
    <2>2. r.errors = <<>> /\ r \in Readings
      BY <2>1 DEF AccountEffect
    <2>3. n + 1 # 0
      OBVIOUS
    <2>4. CASE n = 0
      <3>1. p.accounts = <<>>
        BY <1>2, <2>4 DEF AccountsRead
      <3>2. row.ref \notin RefsOf(p.accounts)
        BY <3>1 DEF RefsOf
      <3>3. r.accounts = Append(p.accounts, NativeAccount(row))
        BY <2>1, <3>2 DEF AccountEffect
      <3>4. Len(p.accounts) = 0
        BY <3>1
      <3>5. Len(r.accounts) = 1 /\ r.accounts[1] = NativeAccount(row)
        BY <2>2, <3>3, <3>4, AppendedAccount
      <3>6. QED
        BY <1>2, <2>1, <2>2, <2>3, <3>5 DEF AccountsRead
    <2>5. CASE n # 0
      <3>1. Len(p.accounts) = 1 /\ p.accounts[1] = AccountOf(f.of[1])
        BY <1>2, <2>5 DEF AccountsRead
      <3>2. row.ref \in RefsOf(p.accounts)
        <4>1. p.accounts \in Seq(AccountRecords)
          BY DEF Readings
        <4>2. 1 \in DOMAIN p.accounts
          BY <3>1, <4>1
        <4>3. p.accounts[1].ref = row.ref
          BY <2>1, <3>1 DEF AccountOf
        <4>4. QED
          BY <4>2, <4>3 DEF RefsOf
      <3>3. r.accounts = p.accounts
        BY <3>2 DEF AccountEffect
      <3>4. QED
        BY <1>2, <2>2, <2>3, <3>1, <3>3 DEF AccountsRead
    <2>6. QED
      BY <2>4, <2>5
  <1>3. QED
    BY <1>1, <1>2

(* The next row of an export adds its payment, if it has one. *)
LEMMA PaymentsGrow ==
  ASSUME NEW f, f.of \in Ledgers, f.of # <<>>, f.shape \in {"payments", "full"},
         NEW n \in Nat, NEW p \in Readings, PaymentsRead(f, p, n), p.errors = <<>>,
         NEW row, NextOf(f, n, row), NEW i, NEW r, PaymentEffect(r, p, f.shape, i, row)
  PROVE  PaymentsRead(f, r, n + 1) /\ r.errors = <<>>
  <1>1. CASE f.shape = "full" /\ f.of[1].payments = <<>>
    <2>1. row.date = Blank
      BY <1>1, FullExport DEF NextOf
    <2>2. r.payments = p.payments /\ r.errors = p.errors
      BY <1>1, <2>1 DEF PaymentEffect
    <2>3. QED
      BY <1>1, <2>2 DEF PaymentsRead
  <1>2. CASE ~(f.shape = "full" /\ f.of[1].payments = <<>>)
    <2>1. row.date # Blank /\ ~NotPaid(row)
      <3>1. CASE f.shape = "payments"
        BY <3>1, PaymentsExport DEF NextOf
      <3>2. CASE f.shape = "full"
        BY <1>2, <3>2, FullExport DEF NextOf
      <3>3. QED
        BY <3>1, <3>2
    <2>2. r.payments = Append(p.payments, NativePayment(row)) /\ r.errors = <<>>
          /\ r \in Readings
      BY <2>1 DEF PaymentEffect
    <2>3. /\ Len(p.payments) = n
          /\ \A j \in 1..n : p.payments[j] = NativePayment(Export(f.shape, f.of)[j])
      BY <1>2 DEF PaymentsRead
    <2>4. /\ Len(r.payments) = n + 1 /\ r.payments[n + 1] = NativePayment(row)
          /\ \A j \in 1..n : r.payments[j] = p.payments[j]
      BY <2>2, <2>3, AppendedPayment
    <2>5. \A j \in 1..(n + 1) : j \in 1..n \/ j = n + 1
      OBVIOUS
    <2>6. \A j \in 1..(n + 1) : r.payments[j] = NativePayment(Export(f.shape, f.of)[j])
      BY <2>3, <2>4, <2>5 DEF NextOf
    <2>7. QED
      BY <1>2, <2>2, <2>4, <2>6 DEF PaymentsRead
  <1>3. QED
    BY <1>1, <1>2

(* One more row of an export is read back. *)
LEMMA ReadBackStep ==
  ASSUME NEW f, f.of \in Ledgers, f.of # <<>>, f.shape \in Shapes,
         NEW n \in Nat, NEW p \in Readings, ReadBack(f, p, n),
         NEW row, NextOf(f, n, row), NEW i \in Nat
  PROVE  ReadBack(f, NativeRow(p, f.shape, i, row), n + 1)
  <1> DEFINE q == NativeRow(p, f.shape, i, row)
             both == IF f.shape \in {"full", "accounts"} THEN WithAccount(p, i, row) ELSE p
  <1>1. NativeCells(row)
    BY ExportTyped DEF NextOf
  <1>2. 1..(n + 1) \subseteq DOMAIN Export(f.shape, f.of)
    <2>1. \A j \in 1..(n + 1) : j \in 1..n \/ j = n + 1
      OBVIOUS
    <2>2. QED
      BY <2>1 DEF ReadBack, NextOf
  <1>3. /\ p.errors = <<>> /\ 1..n \subseteq DOMAIN Export(f.shape, f.of)
        /\ f.shape # "payments" => AccountsRead(f, p, n)
        /\ f.shape # "accounts" => PaymentsRead(f, p, n)
    BY DEF ReadBack
  <1>4. /\ both \in Readings /\ both.errors = <<>> /\ both.payments = p.payments
        /\ f.shape # "payments" => AccountsRead(f, both, n + 1)
    <2>1. CASE f.shape \in {"full", "accounts"}
      <3>1. both = WithAccount(p, i, row) /\ f.shape # "payments"
        BY <2>1
      <3> HIDE DEF both
      <3>2. AccountEffect(both, p, i, row)
        BY <1>1, <3>1, WithAccountEffect
      <3>3. AccountsRead(f, both, n + 1) /\ both.errors = <<>>
        BY <1>1, <1>3, <2>1, <3>1, <3>2, AccountsGrow
      <3>4. QED
        BY <3>2, <3>3 DEF AccountEffect
    <2>2. CASE f.shape \notin {"full", "accounts"}
      BY <1>3, <2>2 DEF Shapes
    <2>3. QED
      BY <2>1, <2>2
  <1>5. q = IF f.shape \in {"full", "payments"} THEN WithPayment(both, f.shape, i, row) ELSE both
    BY DEF NativeRow
  <1> HIDE DEF both, q
  <1>6. CASE f.shape \in {"full", "payments"}
    <2>1. PaymentEffect(q, both, f.shape, i, row)
      BY <1>1, <1>4, <1>5, <1>6, WithPaymentEffect
    <2>2. PaymentsRead(f, both, n)
      BY <1>3, <1>4, <1>6 DEF PaymentsRead
    <2>3. PaymentsRead(f, q, n + 1) /\ q.errors = <<>>
      BY <1>4, <1>6, <2>1, <2>2, PaymentsGrow
    <2>4. f.shape # "payments" => AccountsRead(f, q, n + 1)
      BY <1>4, <2>1 DEF PaymentEffect, AccountsRead
    <2>5. ReadBack(f, q, n + 1)
      BY <1>2, <2>3, <2>4 DEF ReadBack
    <2>6. QED
      BY <2>5 DEF q
  <1>7. CASE f.shape \notin {"full", "payments"}
    <2>1. q = both /\ f.shape = "accounts"
      BY <1>5, <1>7 DEF Shapes
    <2>2. ReadBack(f, q, n + 1)
      BY <1>2, <1>4, <2>1 DEF ReadBack
    <2>3. QED
      BY <2>2 DEF q
  <1>8. QED
    BY <1>6, <1>7

(* The end of the export. *)
Back(f, p) ==
  LET ledgers == IF f.shape = "full" THEN <<f.of[1]>> ELSE f.of
  IN  /\ p.errors = <<>>
      /\ f.shape # "payments" =>
           /\ Len(p.accounts) = Len(ledgers)
           /\ \A i \in DOMAIN ledgers : SameAccount(p.accounts[i], ledgers[i])
      /\ f.shape # "accounts" =>
           /\ Len(p.payments) = SumFunction([i \in DOMAIN ledgers |-> Len(ledgers[i].payments)])
           /\ \A i \in DOMAIN ledgers : \A q \in ToSet(ledgers[i].payments) :
                \E s \in ToSet(p.payments) : SamePayment(s, ledgers[i], q)

(* The sum of one number. *)
LEMMA SumOfOne ==
  ASSUME NEW c \in Nat
  PROVE  SumFunction([i \in {1} |-> c]) = c
  <1> DEFINE f == [i \in {1} |-> c]
  <1>1. DOMAIN f = {1} /\ f[1] = c /\ IsFiniteSet({1}) /\ {1} \ {1} = {}
    BY FS_Singleton
  <1>2. \A x \in {1} : f[x] \in Int
    OBVIOUS
  <1> HIDE DEF f
  <1>3. SumFunctionOnSet(f, {1}) = f[1] + SumFunctionOnSet(f, {1} \ {1})
    BY <1>1, <1>2, SumFacts
  <1>4. SumFunctionOnSet(f, {}) = 0
    BY <1>1, <1>2, SumFacts
  <1>5. SumFunctionOnSet(f, {1}) = c
    BY <1>1, <1>3, <1>4
  <1>6. SumFunction(f) = c
    BY <1>1, <1>5 DEF SumFunction
  <1>7. QED
    BY <1>6 DEF f

(* An interval has one end. *)
LEMMA SameInterval ==
  ASSUME NEW a \in Nat, NEW b \in Nat, 1..a = 1..b
  PROVE  a = b
  <1>1. (a = 0 \/ a \in 1..a) /\ (b = 0 \/ b \in 1..b)
    OBVIOUS
  <1>2. (a = 0 \/ a \in 1..b) /\ (b = 0 \/ b \in 1..a)
    BY <1>1
  <1>3. QED
    BY <1>2

(* After the last row the ledgers have been read back. *)
LEMMA BackAtEnd ==
  ASSUME NEW f, f.of \in Ledgers, f.of # <<>>, f.shape \in Shapes,
         NEW n \in Nat, NEW p \in Readings, ReadBack(f, p, n),
         n + 1 \notin DOMAIN Export(f.shape, f.of)
  PROVE  Back(f, p)
  <1> DEFINE E == Export(f.shape, f.of)
  <1>1. PICK m \in Nat : DOMAIN E = 1..m
    BY ExportTyped
  <1>2. n = m
    <2>1. 1..n \subseteq 1..m /\ n + 1 \notin 1..m
      BY <1>1 DEF ReadBack
    <2>2. n = 0 \/ n \in 1..n
      OBVIOUS
    <2>3. QED
      BY <2>1, <2>2
  <1>3. /\ p.errors = <<>>
        /\ f.shape # "payments" => AccountsRead(f, p, n)
        /\ f.shape # "accounts" => PaymentsRead(f, p, n)
    BY DEF ReadBack
  <1>4. PICK of \in Ledgers : of = f.of /\ of # <<>>
    OBVIOUS
  <1>5. /\ of \in Seq(ExportedLedger) /\ Len(of) \in Nat /\ DOMAIN of = 1..Len(of)
        /\ \A i \in DOMAIN of : of[i] \in ExportedLedger
        /\ 1 \in DOMAIN of /\ of[1] \in ExportedLedger
    BY <1>4, LedgersTyped
  <1>6. p.payments \in Seq(PaymentRecords) /\ DOMAIN p.payments = 1..Len(p.payments)
    BY DEF Readings
  <1>7. CASE f.shape = "accounts"
    <2>1. DOMAIN E = DOMAIN of
      BY <1>4, <1>7, AccountsExport
    <2>2. n = Len(of)
      <3>1. 1..n = 1..Len(of)
        BY <1>1, <1>2, <1>5, <2>1
      <3>2. QED
        BY <1>5, <3>1, SameInterval
    <2>3. Len(p.accounts) = Len(of) /\ \A i \in DOMAIN of : p.accounts[i] = AccountOf(of[i])
      BY <1>3, <1>4, <1>5, <1>7, <2>2 DEF AccountsRead
    <2>4. \A i \in DOMAIN of : SameAccount(p.accounts[i], of[i])
      BY <1>5, <2>3, AccountRestored
    <2>5. QED
      BY <1>3, <1>4, <1>7, <2>3, <2>4 DEF Back
  <1>8. CASE f.shape = "payments"
    <2>1. /\ DOMAIN E = 1..Cardinality(Cells(of)) /\ Cardinality(Cells(of)) \in Nat
          /\ \A i \in DOMAIN of : \A j \in DOMAIN of[i].payments :
               \E k \in DOMAIN E : NativePayment(E[k]) = PaidAs(of[i], of[i].payments[j])
      BY <1>4, <1>8, PaymentsExport
    <2>2. n = Cardinality(Cells(of))
      BY <1>1, <1>2, <2>1
    <2>3. Len(p.payments) = n /\ \A i \in 1..n : p.payments[i] = NativePayment(E[i])
      BY <1>3, <1>8 DEF PaymentsRead
    <2>4. Len(p.payments) = SumFunction([i \in DOMAIN of |-> Len(of[i].payments)])
      BY <1>5, <2>2, <2>3, CellsCounted
    <2>5. ASSUME NEW i \in DOMAIN of, NEW q \in ToSet(of[i].payments)
          PROVE  \E s \in ToSet(p.payments) : SamePayment(s, of[i], q)
      <3>1. PICK j \in DOMAIN of[i].payments : q = of[i].payments[j]
        BY DEF ToSet
      <3>2. PICK k \in 1..n : NativePayment(E[k]) = PaidAs(of[i], of[i].payments[j])
        BY <1>1, <1>2, <2>1
      <3>3. p.payments[k] \in ToSet(p.payments)
        BY <1>6, <2>3 DEF ToSet
      <3>4. SamePayment(p.payments[k], of[i], q)
        BY <2>3, <3>1, <3>2 DEF SamePayment, PaidAs
      <3>5. QED
        BY <3>3, <3>4
    <2>6. QED
      BY <1>3, <1>4, <1>8, <2>4, <2>5 DEF Back
  <1>9. CASE f.shape = "full"
    <2> DEFINE l == of[1]
               ledgers == <<l>>
    <2>1. l.payments \in Seq(PaymentCells) /\ l \in ExportedLedger
      BY <1>5, PaymentsOfLedger
    <2>2. /\ DOMAIN E = IF l.payments = <<>> THEN {1} ELSE DOMAIN l.payments
          /\ \A j \in DOMAIN E : l.payments # <<>> =>
               NativePayment(E[j]) = PaidAs(l, l.payments[j])
      BY <1>4, <1>9, FullExport
    <2>3. n # 0
      <3>1. l.payments # <<>> => 1 \in DOMAIN l.payments
        BY <2>1
      <3>2. 1 \in DOMAIN E
        BY <2>2, <3>1
      <3>3. QED
        BY <1>1, <1>2, <3>2
    <2>4. Len(p.accounts) = 1 /\ p.accounts[1] = AccountOf(l)
      BY <1>3, <1>4, <1>9, <2>3 DEF AccountsRead
    <2>5. Len(l.payments) \in Nat /\ DOMAIN l.payments = 1..Len(l.payments)
          /\ (l.payments = <<>> => Len(l.payments) = 0)
      BY <2>1
    <2>6. Len(p.payments) = Len(l.payments)
          /\ \A j \in DOMAIN l.payments : p.payments[j] = PaidAs(l, l.payments[j])
      <3>1. CASE l.payments = <<>>
        <4>1. p.payments = <<>>
          BY <1>3, <1>4, <1>9, <3>1 DEF PaymentsRead
        <4>2. QED
          BY <3>1, <4>1
      <3>2. CASE l.payments # <<>>
        <4>1. Len(p.payments) = n /\ \A i \in 1..n : p.payments[i] = NativePayment(E[i])
          BY <1>3, <1>4, <1>9, <3>2 DEF PaymentsRead
        <4>2. DOMAIN l.payments = 1..n /\ n = Len(l.payments)
          BY <1>1, <1>2, <2>2, <2>5, <3>2
        <4>3. QED
          BY <1>1, <1>2, <2>2, <3>2, <4>1, <4>2
      <3>3. QED
        BY <3>1, <3>2
    <2>7. SameAccount(p.accounts[1], l)
      BY <2>1, <2>4, AccountRestored
    <2>8. ASSUME NEW q \in ToSet(l.payments)
          PROVE  \E s \in ToSet(p.payments) : SamePayment(s, l, q)
      <3>1. PICK j \in DOMAIN l.payments : q = l.payments[j]
        BY DEF ToSet
      <3>2. p.payments[j] \in ToSet(p.payments)
        BY <1>6, <2>5, <2>6 DEF ToSet
      <3>3. SamePayment(p.payments[j], l, q)
        BY <2>6, <3>1 DEF SamePayment, PaidAs
      <3>4. QED
        BY <3>2, <3>3
    <2> HIDE DEF l
    <2>9. DOMAIN ledgers = {1} /\ Len(ledgers) = 1 /\ ledgers[1] = l
      OBVIOUS
    <2>10. SumFunction([i \in DOMAIN ledgers |-> Len(ledgers[i].payments)]) = Len(l.payments)
      <3>1. [i \in DOMAIN ledgers |-> Len(ledgers[i].payments)] = [i \in {1} |-> Len(l.payments)]
        BY <2>9
      <3>2. QED
        BY <2>5, <3>1, SumOfOne
    <2>11. (IF f.shape = "full" THEN <<f.of[1]>> ELSE f.of) = ledgers
      BY <1>4, <1>9 DEF l
    <2> HIDE DEF ledgers
    <2>12. \A i \in DOMAIN ledgers : i = 1 /\ ledgers[i] = l
      BY <2>9
    <2>13. \A i \in DOMAIN ledgers : SameAccount(p.accounts[i], ledgers[i])
      BY <2>7, <2>12
    <2>14. \A i \in DOMAIN ledgers : \A q \in ToSet(ledgers[i].payments) :
             \E s \in ToSet(p.payments) : SamePayment(s, ledgers[i], q)
      BY <2>8, <2>12
    <2>15. QED
      BY <1>3, <2>4, <2>6, <2>9, <2>10, <2>11, <2>13, <2>14 DEF Back
  <1>10. QED
    BY <1>7, <1>8, <1>9 DEF Shapes

-----------------------------------------------------------------------------
BackInv ==
  file.of # <<>> =>
    /\ phase = "parse" => ReadBack(file, parsed, Len(file.rows))
    /\ phase = "batch" => Back(file, parsed)

BackPart == ReadingInv /\ BackInv

(* Before the first row nothing has. *)
LEMMA BackStarted ==
  ASSUME NEW f, f.of \in Ledgers, f.of # <<>>, f.shape \in Shapes
  PROVE  ReadBack(f, NothingRead, 0)
  <1>1. /\ NothingRead.errors = <<>> /\ NothingRead.accounts = <<>>
        /\ NothingRead.payments = <<>>
    BY DEF NothingRead
  <1>2. 1..0 = {} /\ Len(<<>>) = 0
    OBVIOUS
  <1>3. QED
    BY <1>1, <1>2 DEF ReadBack, AccountsRead, PaymentsRead

(* Only a native file is an export. *)
LEMMA ExportNative ==
  ASSUME ReadingInv, phase = "parse", file.of # <<>>
  PROVE  /\ file.format = "native" /\ file.shape \in Shapes /\ file.of \in Ledgers
         /\ IsFile(file) /\ parsed \in Readings /\ Len(file.rows) \in Nat
         /\ Line = Len(file.rows) + 2 /\ NextRow = Len(file.rows) + 1
         /\ RowAt(NextRow) = {Export(file.shape, file.of)[j] :
                                j \in {NextRow} \intersect DOMAIN Export(file.shape, file.of)}
  <1>1. NativeFile(file) /\ IsFile(file) /\ parsed \in Readings
    BY DEF ReadingInv, LegacyFile
  <1>2. PICK S : file.rows \in Seq(S)
    BY <1>1 DEF NativeFile
  <1>3. Len(file.rows) \in Nat
    BY <1>2
  <1>4. QED
    BY <1>1, <1>3 DEF NativeFile, Line, NextRow, RowAt

(* Reading a row of an export. *)
LEMMA RowReadBack ==
  ASSUME BackPart, ReadRow
  PROVE  BackInv'
  <1>1. phase = "parse" /\ phase' = "parse"
    BY DEF ReadRow
  <1>2. PICK row \in RowAt(NextRow) :
          /\ file' = [file EXCEPT !.rows = Append(file.rows, row)]
          /\ parsed' = IF file.format = "legacy"
                         THEN LegacyRow(parsed, file.shape, Line, row)
                         ELSE NativeRow(parsed, file.shape, Line, row)
    BY DEF ReadRow
  <1>3. ReadingInv /\ IsFile(file) /\ (LegacyFile(file, parsed) \/ NativeFile(file))
    BY <1>1 DEF BackPart, ReadingInv
  <1>4. file'.of = file.of /\ file'.shape = file.shape /\ file'.rows = Append(file.rows, row)
    BY <1>2, <1>3 DEF IsFile
  <1>5. SUFFICES ASSUME file.of # <<>>
                 PROVE  ReadBack(file', parsed', Len(file'.rows))
    BY <1>1, <1>4 DEF BackInv
  <1>6. /\ file.format = "native" /\ file.shape \in Shapes /\ file.of \in Ledgers
        /\ parsed \in Readings /\ Len(file.rows) \in Nat
        /\ Line = Len(file.rows) + 2 /\ NextRow = Len(file.rows) + 1
        /\ RowAt(NextRow) = {Export(file.shape, file.of)[j] :
                               j \in {NextRow} \intersect DOMAIN Export(file.shape, file.of)}
    BY <1>1, <1>3, <1>5, ExportNative
  <1>7. PICK n \in Nat : n = Len(file.rows)
    BY <1>6
  <1>8. Len(file'.rows) = n + 1
    <2>1. PICK S : file.rows \in Seq(S)
      BY <1>3 DEF LegacyFile, NativeFile
    <2>2. file.rows \in Seq(S \union {row})
      BY <2>1
    <2>3. QED
      BY <1>4, <1>7, <2>2
  <1>9. NextOf(file, n, row)
    BY <1>2, <1>6, <1>7 DEF NextOf
  <1>10. PICK i \in Nat : i = Line
    BY <1>6
  <1>11. ReadBack(file, parsed, n)
    BY <1>1, <1>5, <1>7 DEF BackPart, BackInv
  <1>12. ReadBack(file, NativeRow(parsed, file.shape, i, row), n + 1)
    BY <1>5, <1>6, <1>9, <1>11, ReadBackStep
  <1>13. parsed' = NativeRow(parsed, file.shape, i, row)
    BY <1>2, <1>6, <1>10
  <1>14. ReadBack(file, parsed', n + 1)
    BY <1>12, <1>13
  <1>15. QED
    BY <1>4, <1>8, <1>14 DEF ReadBack, AccountsRead, PaymentsRead

(* Every step keeps what has been read back. *)
LEMMA BackHolds == BackPart /\ [Next]_vars => BackPart'
  <1> SUFFICES ASSUME BackPart, [Next]_vars PROVE BackPart'
    OBVIOUS
  <1>1. ReadingInv /\ BackInv /\ ReadingInv'
    BY ReadingHolds DEF BackPart
  <1>2. CASE phase' \in {"upload", "refused"}
    BY <1>1, <1>2 DEF BackPart, BackInv
  <1>3. CASE RefuseDeclared \/ Receive \/ Truncated
    <2>1. phase = "upload" /\ phase' \in {"upload", "refused"}
      BY <1>3 DEF RefuseDeclared, Receive, Truncated, Answer
    <2>2. QED
      BY <1>2, <2>1
  <1>4. ASSUME NEW format, NEW shape, NEW of, Accept(format, shape, of)
        PROVE  BackPart'
    <2>1. \/ phase' = "refused"
          \/ /\ phase' = "parse" /\ parsed' = NothingRead
             /\ file' = [format |-> format, shape |-> shape, of |-> of, rows |-> <<>>]
      BY <1>1, <1>4, AcceptedRest
    <2>2. CASE /\ phase' = "parse" /\ parsed' = NothingRead
               /\ file' = [format |-> format, shape |-> shape, of |-> of, rows |-> <<>>]
      <3>1. ASSUME file'.of # <<>>
            PROVE  ReadBack(file', NothingRead, 0)
        <4>1. NativeFile(file')
          BY <1>1, <2>2, <3>1 DEF ReadingInv, LegacyFile
        <4>2. file'.shape \in Shapes /\ file'.of \in Ledgers
          BY <3>1, <4>1 DEF NativeFile
        <4>3. QED
          BY <3>1, <4>2, BackStarted
      <3>2. Len(file'.rows) = 0
        BY <2>2
      <3>3. QED
        BY <1>1, <2>2, <3>1, <3>2 DEF BackPart, BackInv
    <2>3. QED
      BY <1>2, <2>1, <2>2
  <1>5. CASE ReadRow
    BY <1>1, <1>5, RowReadBack DEF BackPart
  <1>6. CASE EndOfFile
    <2>1. /\ phase = "parse" /\ phase' = "batch" /\ file' = file
          /\ parsed' = IF file.format = "legacy" THEN LegacyEnd(parsed) ELSE parsed
          /\ file.of # <<>> => RowAt(NextRow) = {}
      BY <1>6 DEF EndOfFile
    <2>2. ASSUME file.of # <<>>
          PROVE  Back(file, parsed) /\ parsed' = parsed
      <3>1. /\ file.format = "native" /\ file.shape \in Shapes /\ file.of \in Ledgers
            /\ parsed \in Readings /\ Len(file.rows) \in Nat
            /\ NextRow = Len(file.rows) + 1
            /\ RowAt(NextRow) = {Export(file.shape, file.of)[j] :
                               j \in {NextRow} \intersect DOMAIN Export(file.shape, file.of)}
        BY <1>1, <2>1, <2>2, ExportNative
      <3>2. NextRow \notin DOMAIN Export(file.shape, file.of)
        BY <2>1, <2>2, <3>1
      <3>3. ReadBack(file, parsed, Len(file.rows))
        BY <1>1, <2>1, <2>2 DEF BackInv
      <3>4. PICK n \in Nat : n = Len(file.rows)
        BY <3>1
      <3>5. Back(file, parsed)
        BY <2>2, <3>1, <3>2, <3>3, <3>4, BackAtEnd
      <3>6. QED
        BY <2>1, <3>1, <3>5
    <2>3. QED
      BY <1>1, <2>1, <2>2 DEF BackPart, BackInv
  <1>7. CASE \E w \in Workers : \/ \E map \in Mappings : commit(w, map)
                                \/ ImportRef(w) \/ EndCommit(w) \/ Rollback(w)
    <2>1. UNCHANGED <<phase, file, parsed>>
      BY <1>7 DEF commit, Begin, ImportRef, EndCommit, Rollback
    <2>2. QED
      BY <1>1, <2>1 DEF BackPart, BackInv
  <1>8. CASE UNCHANGED vars
    <2>1. UNCHANGED <<phase, file, parsed>>
      BY <1>8 DEF vars
    <2>2. QED
      BY <1>1, <2>1 DEF BackPart, BackInv
  <1>9. QED
    BY <1>3, <1>4, <1>5, <1>6, <1>7, <1>8 DEF Next

(* Each of the three exports reads back as the accounts and the payments   *)
(* it was made of: every account in its place, no payment lost or added,   *)
(* no row refused; a name that began with a quote before a formula sign is *)
(* the exception (csv_safety.py, native_csv.py, admin/router.py).          *)
THEOREM ExportsAlwaysReadBack == Spec => []RoundTrip
  <1>1. Init => BackPart
    BY NothingReadOrderly DEF Init, ReadingInv, Orderly, BackPart, BackInv
  <1>2. BackPart => RoundTrip
    BY DEF BackPart, BackInv, Back, RoundTrip
  <1>3. QED
    BY <1>1, <1>2, BackHolds, PTL DEF Spec
=============================================================================
