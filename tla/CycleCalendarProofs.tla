------------------------ MODULE CycleCalendarProofs -------------------------
(***************************************************************************)
(* The calendar arithmetic is right on every date of every year, not only  *)
(* on the days the model checker walks.  The cycle dates are numbered      *)
(* (CycleNumber), so that advance_cycle adds one and previous_cycle takes  *)
(* one away; toordinal and this number put them in the same order.  The    *)
(* loop of get_cycle_dates is then a list of consecutive numbers.          *)
(***************************************************************************)
EXTENDS CycleCalendar, TLAPS, WellFoundedInduction, FiniteSetTheorems,
        SequenceTheorems

(* A month has between 28 and 31 days. *)
LEMMA MonthLength ==
  ASSUME NEW y \in Int, NEW m \in 1..12
  PROVE  monthrange(y, m) \in 28..31
  BY DEF monthrange, Leap

(* Both cycle dates of a month are dates of that month, the 15th first. *)
LEMMA MonthCycles ==
  ASSUME NEW y \in Nat \ {0}, NEW m \in 1..12
  PROVE  /\ date(y, m, 15) \in Dates /\ IsCycleDate(date(y, m, 15))
         /\ _month_thirtieth(y, m) \in Dates
         /\ IsCycleDate(_month_thirtieth(y, m))
         /\ _month_thirtieth(y, m).day \in 28..30
  <1>1. monthrange(y, m) \in 28..31
    BY MonthLength
  <1>2. QED
    BY <1>1 DEF Dates, date, _month_thirtieth, IsCycleDate

(* The 15th of the month after any month is a cycle date. *)
LEMMA NextFifteenth ==
  ASSUME NEW y \in Nat \ {0}, NEW m \in 1..12
  PROVE  /\ FifteenthOfNextMonth(y, m) \in Dates
         /\ IsCycleDate(FifteenthOfNextMonth(y, m))
  BY MonthCycles DEF FifteenthOfNextMonth

(* Tomorrow of a date is a date. *)
LEMMA TomorrowIsDate ==
  ASSUME NEW d \in Dates
  PROVE  Tomorrow(d) \in Dates
  <1>1. d.year \in Nat \ {0} /\ d.month \in 1..12 /\ d.day \in 1..31
    BY DEF Dates
  <1>2. monthrange(d.year, d.month) \in 28..31
    BY <1>1, MonthLength
  <1>3. CASE d.day < monthrange(d.year, d.month)
    BY <1>1, <1>2, <1>3 DEF Tomorrow, Dates
  <1>4. CASE d.day >= monthrange(d.year, d.month) /\ d.month < 12
    <2>1. monthrange(d.year, d.month + 1) \in 28..31
      BY <1>1, <1>4, MonthLength
    <2>2. QED
      BY <1>1, <1>2, <1>4, <2>1 DEF Tomorrow, Dates, date
  <1>5. CASE d.day >= monthrange(d.year, d.month) /\ d.month >= 12
    <2>1. monthrange(d.year + 1, 1) \in 28..31
      BY <1>1, MonthLength
    <2>2. QED
      BY <1>1, <1>2, <1>5, <2>1 DEF Tomorrow, Dates, date
  <1>6. QED
    BY <1>1, <1>2, <1>3, <1>4, <1>5

(* A cycle date is the 15th or the day _month_thirtieth of its month. *)
LEMMA CycleDateCases ==
  ASSUME NEW c \in Dates, IsCycleDate(c)
  PROVE  /\ c.year \in Nat \ {0} /\ c.month \in 1..12
         /\ \/ c = date(c.year, c.month, 15)
            \/ c = _month_thirtieth(c.year, c.month)
  BY DEF Dates, IsCycleDate, date

(* next_cycle_date returns the least cycle date that is not before the day. *)
LEMMA NextCycleCorrect ==
  ASSUME NEW d \in Dates
  PROVE  /\ next_cycle_date(d) \in Dates
         /\ IsCycleDate(next_cycle_date(d))
         /\ NotAfter(d, next_cycle_date(d))
         /\ \A c \in Dates : IsCycleDate(c) /\ NotAfter(d, c)
                               => NotAfter(next_cycle_date(d), c)
  <1> DEFINE y == d.year
             m == d.month
             last == monthrange(y, m)
  <1>1. y \in Nat \ {0} /\ m \in 1..12 /\ d.day \in 1..31 /\ d.day <= last
    BY DEF Dates
  <1>2. last \in 28..31
    BY <1>1, MonthLength
  <1>3. d = [year |-> y, month |-> m, day |-> d.day]
    BY DEF Dates
  <1>4. CASE d.day <= 15
    <2>1. next_cycle_date(d) = date(y, m, 15)
      BY <1>4 DEF next_cycle_date
    <2>2. ASSUME NEW c \in Dates, IsCycleDate(c), NotAfter(d, c)
          PROVE  NotAfter(date(y, m, 15), c)
      <3>1. monthrange(c.year, c.month) \in 28..31
        BY MonthLength DEF Dates
      <3>2. QED
        BY <1>1, <2>2, <3>1, CycleDateCases
        DEF NotAfter, Before, IsCycleDate, date, _month_thirtieth, Dates
    <2>3. NotAfter(d, date(y, m, 15))
      BY <1>1, <1>3, <1>4 DEF NotAfter, Before, date
    <2>4. QED
      BY <1>1, <2>1, <2>2, <2>3, MonthCycles
  <1>5. CASE d.day > 15 /\ NotAfter(d, _month_thirtieth(y, m))
    <2>1. next_cycle_date(d) = _month_thirtieth(y, m)
      BY <1>1, <1>5 DEF next_cycle_date
    <2>2. ASSUME NEW c \in Dates, IsCycleDate(c), NotAfter(d, c)
          PROVE  NotAfter(_month_thirtieth(y, m), c)
      <3>1. CASE c.year = y /\ c.month = m
        <4>1. c # date(y, m, 15)
          BY <1>1, <1>5, <2>2 DEF NotAfter, Before, date
        <4>2. QED
          BY <2>2, <3>1, <4>1, CycleDateCases DEF NotAfter
      <3>2. CASE ~(c.year = y /\ c.month = m)
        BY <1>1, <2>2, <3>2 DEF NotAfter, Before, Dates, date, _month_thirtieth
      <3>3. QED
        BY <3>1, <3>2
    <2>3. QED
      BY <1>1, <1>5, <2>1, <2>2, MonthCycles
  <1>6. CASE d.day > 15 /\ ~NotAfter(d, _month_thirtieth(y, m))
    <2>1. next_cycle_date(d) = FifteenthOfNextMonth(y, m)
      BY <1>1, <1>6 DEF next_cycle_date
    <2>2. ASSUME NEW c \in Dates, IsCycleDate(c), NotAfter(d, c)
          PROVE  NotAfter(FifteenthOfNextMonth(y, m), c)
      <3>1. monthrange(c.year, c.month) \in 28..31
        BY MonthLength DEF Dates
      <3>2. ~(c.year = y /\ c.month = m)
        BY <1>1, <1>2, <1>6, <2>2, CycleDateCases
        DEF NotAfter, Before, date, _month_thirtieth
      <3>3. c.day >= 15
        BY <2>2, <3>1 DEF IsCycleDate, _month_thirtieth, date
      <3>4. QED
        BY <1>1, <2>2, <3>2, <3>3
        DEF NotAfter, Before, Dates, date, FifteenthOfNextMonth
    <2>3. NotAfter(d, FifteenthOfNextMonth(y, m))
      BY <1>1 DEF NotAfter, Before, date, FifteenthOfNextMonth
    <2>4. QED
      BY <1>1, <2>1, <2>2, <2>3, NextFifteenth
  <1>7. QED
    BY <1>1, <1>4, <1>5, <1>6

(* advance_cycle returns the cycle date right after a cycle date. *)
LEMMA AdvanceCorrect ==
  ASSUME NEW c \in Dates, IsCycleDate(c)
  PROVE  /\ advance_cycle(c) \in Dates
         /\ IsCycleDate(advance_cycle(c))
         /\ Before(c, advance_cycle(c))
         /\ \A b \in Dates : IsCycleDate(b) /\ Before(c, b)
                               => NotAfter(advance_cycle(c), b)
  <1> DEFINE y == c.year
             m == c.month
  <1>1. y \in Nat \ {0} /\ m \in 1..12 /\ c.day \in 1..31
    BY DEF Dates
  <1>2. monthrange(y, m) \in 28..31
    BY <1>1, MonthLength
  <1>3. CASE c.day = 15
    <2>1. advance_cycle(c) = _month_thirtieth(y, m)
      BY <1>3 DEF advance_cycle
    <2>2. ASSUME NEW b \in Dates, IsCycleDate(b), Before(c, b)
          PROVE  NotAfter(_month_thirtieth(y, m), b)
      <3>1. CASE b.year = y /\ b.month = m
        <4>1. b.day # 15
          BY <1>1, <1>3, <2>2, <3>1 DEF Before, Dates
        <4>2. QED
          BY <2>2, <3>1, <4>1 DEF NotAfter, IsCycleDate
      <3>2. CASE ~(b.year = y /\ b.month = m)
        BY <1>1, <2>2, <3>2 DEF NotAfter, Before, Dates, date, _month_thirtieth
      <3>3. QED
        BY <3>1, <3>2
    <2>3. Before(c, _month_thirtieth(y, m))
      BY <1>1, <1>2, <1>3 DEF Before, date, _month_thirtieth
    <2>4. QED
      BY <1>1, <2>1, <2>2, <2>3, MonthCycles
  <1>4. CASE c.day # 15
    <2>1. advance_cycle(c) = FifteenthOfNextMonth(y, m)
      BY <1>4 DEF advance_cycle
    <2>2. ASSUME NEW b \in Dates, IsCycleDate(b), Before(c, b)
          PROVE  NotAfter(FifteenthOfNextMonth(y, m), b)
      <3>1. monthrange(b.year, b.month) \in 28..31
        BY MonthLength DEF Dates
      <3>2. c.day = _month_thirtieth(y, m).day
        BY <1>4 DEF IsCycleDate
      <3>3. ~(b.year = y /\ b.month = m)
        BY <1>1, <1>2, <2>2, <3>2
        DEF Before, IsCycleDate, date, _month_thirtieth, Dates
      <3>4. b.day >= 15
        BY <2>2, <3>1 DEF IsCycleDate, _month_thirtieth, date
      <3>5. QED
        BY <1>1, <2>2, <3>3, <3>4
        DEF NotAfter, Before, Dates, date, FifteenthOfNextMonth
    <2>3. Before(c, FifteenthOfNextMonth(y, m))
      BY <1>1 DEF Before, date, FifteenthOfNextMonth
    <2>4. QED
      BY <1>1, <2>1, <2>2, <2>3, NextFifteenth
  <1>5. QED
    BY <1>1, <1>3, <1>4

-----------------------------------------------------------------------------
OnCalendar == day \in Dates

(* The walk visits dates of the calendar only. *)
LEMMA WalkOnCalendar == Spec => []OnCalendar
  <1>1. Init => OnCalendar
    BY WindowAssumption DEF Init, OnCalendar
  <1>2. OnCalendar /\ [NextDay]_day => OnCalendar'
    BY TomorrowIsDate DEF NextDay, OnCalendar
  <1>3. QED
    BY <1>1, <1>2, PTL DEF Spec

(* On every date of every walk, the next cycle and the due date exist.     *)
THEOREM DatesAlwaysExist == Spec => []TypeOK
  <1>1. OnCalendar => TypeOK
    BY NextCycleCorrect, AdvanceCorrect DEF OnCalendar, TypeOK, get_next_due_date
  <1>2. QED
    BY <1>1, WalkOnCalendar, PTL

(* The cycle dates the properties compare with are cycle dates. *)
LEMMA ComparedDates ==
  \A c \in CycleDatesOfYears : c \in Dates /\ IsCycleDate(c)
  <1>1. SUFFICES ASSUME NEW c \in CycleDatesOfYears
                 PROVE  c \in Dates /\ IsCycleDate(c)
    OBVIOUS
  <1>2. PICK y \in Years, m \in 1..12 :
          c = date(y, m, 15) \/ c = _month_thirtieth(y, m)
    BY DEF CycleDatesOfYears
  <1>3. y \in Nat \ {0}
    BY WindowAssumption
  <1>4. QED
    BY <1>2, <1>3, MonthCycles

(* On every date of every walk, next_cycle_date skips no cycle, whatever   *)
(* the window and the years compared.                                      *)
THEOREM NextCycleAlwaysLeast == Spec => []NextCycleIsLeast
  <1>1. OnCalendar => NextCycleIsLeast
    BY NextCycleCorrect, ComparedDates DEF OnCalendar, NextCycleIsLeast
  <1>2. QED
    BY <1>1, WalkOnCalendar, PTL

(* On every date of every walk, advance_cycle neither skips nor repeats a  *)
(* cycle.                                                                  *)
THEOREM AdvanceAlwaysSuccessor == Spec => []AdvanceIsSuccessor
  <1>1. OnCalendar => AdvanceIsSuccessor
    BY NextCycleCorrect, AdvanceCorrect, ComparedDates
    DEF OnCalendar, AdvanceIsSuccessor
  <1>2. QED
    BY <1>1, WalkOnCalendar, PTL

(* DaysBeforeMonth adds up the months before. *)
LEMMA DaysBefore ==
  ASSUME NEW y \in Nat
  PROVE  /\ DaysBeforeMonth(y)[1] = 0
         /\ \A m \in 2..12 : DaysBeforeMonth(y)[m]
                              = DaysBeforeMonth(y)[m - 1] + monthrange(y, m - 1)
  <1> DEFINE feb == monthrange(y, 2)
             sum(m) ==
               CASE m = 1 -> 0 [] m = 2 -> 31 [] m = 3 -> 31 + feb
                 [] m = 4 -> 62 + feb [] m = 5 -> 92 + feb
                 [] m = 6 -> 123 + feb [] m = 7 -> 153 + feb
                 [] m = 8 -> 184 + feb [] m = 9 -> 215 + feb
                 [] m = 10 -> 245 + feb [] m = 11 -> 276 + feb
                 [] m = 12 -> 306 + feb
             Step(f, m) == IF m = 1 THEN 0 ELSE f[m - 1] + monthrange(y, m - 1)
             w == [m \in 1..12 |-> sum(m)]
             days == CHOOSE f : f = [m \in 1..12 |-> Step(f, m)]
  <1>1. ASSUME NEW m \in 1..12
        PROVE  sum(m) = Step(w, m)
    <2>1. CASE m = 1
      BY <2>1
    <2>2. CASE m # 1
      <3>1. m - 1 \in 1..12 /\ w[m - 1] = sum(m - 1)
        BY <2>2
      <3>2. feb \in 28..31
        BY MonthLength
      <3>3. sum(m) = sum(m - 1) + monthrange(y, m - 1)
        BY <2>2, <3>2 DEF monthrange
      <3> HIDE DEF w
      <3>4. QED
        BY <2>2, <3>1, <3>3
    <2>3. QED
      BY <2>1, <2>2
  <1> HIDE DEF sum
  <1>2. w = [m \in 1..12 |-> Step(w, m)]
    BY <1>1
  <1> HIDE DEF w
  <1>3. days = [m \in 1..12 |-> Step(days, m)]
    BY <1>2
  <1>4. DaysBeforeMonth(y) = days
    BY DEF DaysBeforeMonth
  <1> HIDE DEF days
  <1>5. \A m \in 1..12 : days[m] = Step(days, m)
    BY <1>3
  <1>6. QED
    BY <1>4, <1>5

(* The number of the last day before a year. *)
DaysBeforeYear(y) ==
  LET p == y - 1 IN 365 * p + p \div 4 - p \div 100 + p \div 400

YearLength(y) == IF Leap(y) THEN 366 ELSE 365

(* A year has 365 days, a leap year one more. *)
LEMMA YearFollows ==
  ASSUME NEW y \in Nat \ {0}
  PROVE  /\ DaysBeforeYear(y) \in Nat
         /\ DaysBeforeYear(y + 1) = DaysBeforeYear(y) + YearLength(y)
  <1>1. DaysBeforeYear(y) \in Int
    BY DEF DaysBeforeYear
  <1>2. QED
  BY DEF DaysBeforeYear, YearLength, Leap

(* Later years start later. *)
LEMMA YearsMonotone ==
  ASSUME NEW y \in Nat \ {0}, NEW z \in Nat \ {0}, y <= z
  PROVE  DaysBeforeYear(y) <= DaysBeforeYear(z)
  BY DEF DaysBeforeYear

(* The days before a month, and the month itself, lie inside the year. *)
LEMMA MonthsInYear ==
  ASSUME NEW y \in Nat \ {0}
  PROVE  /\ \A m \in 1..12 : DaysBeforeMonth(y)[m] \in Nat
         /\ \A m, n \in 1..12 : m < n =>
              DaysBeforeMonth(y)[m] + monthrange(y, m) <= DaysBeforeMonth(y)[n]
         /\ \A m \in 1..12 :
              DaysBeforeMonth(y)[m] + monthrange(y, m) <= YearLength(y)
  <1> DEFINE D(m) == DaysBeforeMonth(y)[m]
             L(m) == monthrange(y, m)
  <1>1. D(1) = 0 /\ \A m \in 2..12 : D(m) = D(m - 1) + L(m - 1)
    BY DaysBefore
  <1>2. /\ L(1) = 31 /\ L(3) = 31 /\ L(4) = 30 /\ L(5) = 31 /\ L(6) = 30
        /\ L(7) = 31 /\ L(8) = 31 /\ L(9) = 30 /\ L(10) = 31 /\ L(11) = 30
        /\ L(12) = 31 /\ L(2) = YearLength(y) - 337 /\ L(2) \in 28..29
    BY DEF monthrange, YearLength
  <1> HIDE DEF D, L
  <1>3. /\ D(2) = D(1) + L(1) /\ D(3) = D(2) + L(2) /\ D(4) = D(3) + L(3)
        /\ D(5) = D(4) + L(4) /\ D(6) = D(5) + L(5) /\ D(7) = D(6) + L(6)
        /\ D(8) = D(7) + L(7) /\ D(9) = D(8) + L(8) /\ D(10) = D(9) + L(9)
        /\ D(11) = D(10) + L(10) /\ D(12) = D(11) + L(11)
    BY <1>1
  <1>4. /\ D(2) = 31 /\ D(3) = 31 + L(2) /\ D(4) = 62 + L(2)
        /\ D(5) = 92 + L(2) /\ D(6) = 123 + L(2) /\ D(7) = 153 + L(2)
        /\ D(8) = 184 + L(2) /\ D(9) = 215 + L(2) /\ D(10) = 245 + L(2)
        /\ D(11) = 276 + L(2) /\ D(12) = 306 + L(2)
    BY <1>1, <1>2, <1>3
  <1>5. \A m \in 1..12 : D(m) \in Nat
    BY <1>1, <1>2, <1>4
  <1>6. \A m, n \in 1..12 : m < n => D(m) + L(m) <= D(n)
    BY <1>1, <1>2, <1>4
  <1>7. \A m \in 1..12 : D(m) + L(m) <= YearLength(y)
    BY <1>1, <1>2, <1>4 DEF YearLength
  <1>8. QED
    BY <1>5, <1>6, <1>7 DEF D, L

(* The number of a date: the years before, the months before, the day. *)
LEMMA OrdinalParts ==
  ASSUME NEW d \in Dates
  PROVE  toordinal(d) = DaysBeforeYear(d.year)
                          + DaysBeforeMonth(d.year)[d.month] + d.day
  BY DEF toordinal, DaysBeforeYear

(* A later date has a greater number. *)
LEMMA OrdinalIncreases ==
  ASSUME NEW a \in Dates, NEW b \in Dates, Before(a, b)
  PROVE  toordinal(a) < toordinal(b)
  <1>1. /\ a.year \in Nat \ {0} /\ a.month \in 1..12 /\ a.day \in 1..31
        /\ a.day <= monthrange(a.year, a.month)
        /\ b.year \in Nat \ {0} /\ b.month \in 1..12 /\ b.day \in 1..31
        /\ monthrange(a.year, a.month) \in 28..31
    BY MonthLength DEF Dates
  <1> DEFINE DA == DaysBeforeMonth(a.year)[a.month]
             DB == DaysBeforeMonth(b.year)[b.month]
             YA == DaysBeforeYear(a.year)
             YB == DaysBeforeYear(b.year)
             L  == monthrange(a.year, a.month)
  <1>2. toordinal(a) = YA + DA + a.day /\ toordinal(b) = YB + DB + b.day
    BY OrdinalParts
  <1>3. DA \in Nat /\ DB \in Nat /\ YA \in Nat /\ YB \in Nat /\ L \in Nat
    <2>1. DA \in Nat
      BY <1>1, MonthsInYear
    <2>2. DB \in Nat
      BY <1>1, MonthsInYear
    <2>3. YA \in Nat
      BY <1>1, YearFollows
    <2>4. YB \in Nat
      BY <1>1, YearFollows
    <2>5. L \in Nat
      BY <1>1
    <2>6. QED
      BY <2>1, <2>2, <2>3, <2>4, <2>5
  <1>4. CASE a.year < b.year
    <2>1. DA + L <= YearLength(a.year)
      BY <1>1, MonthsInYear
    <2>2. YA + YearLength(a.year) = DaysBeforeYear(a.year + 1)
      BY <1>1, YearFollows
    <2>3. DaysBeforeYear(a.year + 1) <= YB
      BY <1>1, <1>4, YearsMonotone
    <2>4. YearLength(a.year) \in Nat
      BY DEF YearLength
    <2> HIDE DEF DA, DB, YA, YB, L
    <2>5. QED
      BY <1>1, <1>2, <1>3, <2>1, <2>2, <2>3, <2>4 DEF L
  <1>5. CASE a.year = b.year /\ a.month < b.month
    <2>1. DA + L <= DB
      BY <1>1, <1>5, MonthsInYear
    <2>2. YA = YB
      BY <1>5
    <2> HIDE DEF DA, DB, YA, YB
    <2>3. QED
      BY <1>1, <1>2, <1>3, <2>1, <2>2
  <1>6. CASE a.year = b.year /\ a.month = b.month /\ a.day < b.day
    <2>1. DA = DB /\ YA = YB
      BY <1>6
    <2> HIDE DEF DA, DB, YA, YB
    <2>2. QED
      BY <1>1, <1>2, <1>3, <1>6, <2>1
  <1>7. QED
    BY <1>4, <1>5, <1>6 DEF Before

(* Dates compare as their numbers do. *)
LEMMA OrdinalOrder ==
  ASSUME NEW a \in Dates, NEW b \in Dates
  PROVE  /\ toordinal(a) \in Nat
         /\ toordinal(a) < toordinal(b) <=> Before(a, b)
         /\ toordinal(a) = toordinal(b) <=> a = b
         /\ toordinal(a) <= toordinal(b) <=> NotAfter(a, b)
  <1>1. ASSUME NEW d \in Dates
        PROVE  toordinal(d) \in Nat
    <2>1. d.year \in Nat \ {0} /\ d.month \in 1..12 /\ d.day \in Nat
      BY DEF Dates
    <2>2. DaysBeforeYear(d.year) \in Nat
      BY <2>1, YearFollows
    <2>3. DaysBeforeMonth(d.year)[d.month] \in Nat
      BY <2>1, MonthsInYear
    <2>4. QED
      BY <2>1, <2>2, <2>3, OrdinalParts
  <1>2. a = b \/ Before(a, b) \/ Before(b, a)
    BY DEF Dates, Before
  <1>3. Before(a, b) => toordinal(a) < toordinal(b)
    BY OrdinalIncreases
  <1>4. Before(b, a) => toordinal(b) < toordinal(a)
    BY OrdinalIncreases
  <1>5. ~ Before(a, a)
    BY DEF Before, Dates
  <1>6. QED
    BY <1>1, <1>2, <1>3, <1>4, <1>5 DEF NotAfter

-----------------------------------------------------------------------------
(* The cycle dates are numbered in order, too. *)
CycleDates == {c \in Dates : IsCycleDate(c)}

CycleNumber(c) == 24 * c.year + 2 * c.month + (IF c.day = 15 THEN 0 ELSE 1)

(* Cycle dates compare as their cycle numbers, and these as the numbers of *)
(* the days.                                                               *)
LEMMA CycleOrder ==
  ASSUME NEW a \in CycleDates, NEW b \in CycleDates
  PROVE  /\ CycleNumber(a) \in Nat
         /\ CycleNumber(a) < CycleNumber(b) <=> Before(a, b)
         /\ CycleNumber(a) = CycleNumber(b) <=> a = b
         /\ CycleNumber(a) <= CycleNumber(b) <=> NotAfter(a, b)
         /\ CycleNumber(a) < CycleNumber(b) <=> toordinal(a) < toordinal(b)
         /\ CycleNumber(a) <= CycleNumber(b) <=> toordinal(a) <= toordinal(b)
  <1>1. /\ a \in Dates /\ a.year \in Nat \ {0} /\ a.month \in 1..12
        /\ a = [year |-> a.year, month |-> a.month, day |-> a.day]
        /\ b \in Dates /\ b.year \in Nat \ {0} /\ b.month \in 1..12
        /\ b = [year |-> b.year, month |-> b.month, day |-> b.day]
    BY DEF CycleDates, Dates
  <1>2. /\ a.day = 15 \/ a.day = _month_thirtieth(a.year, a.month).day
        /\ b.day = 15 \/ b.day = _month_thirtieth(b.year, b.month).day
    BY <1>1, CycleDateCases DEF CycleDates, date
  <1>3. /\ _month_thirtieth(a.year, a.month).day \in 28..30
        /\ _month_thirtieth(b.year, b.month).day \in 28..30
    BY <1>1, MonthCycles
  <1>4. CycleNumber(a) \in Nat /\ CycleNumber(b) \in Nat
    BY <1>1 DEF CycleNumber
  <1>5. CycleNumber(a) < CycleNumber(b) <=> Before(a, b)
    BY <1>1, <1>2, <1>3 DEF CycleNumber, Before
  <1>6. CycleNumber(a) = CycleNumber(b) <=> a = b
    BY <1>1, <1>2, <1>3 DEF CycleNumber
  <1>7. CycleNumber(a) <= CycleNumber(b) <=> NotAfter(a, b)
    BY <1>4, <1>5, <1>6 DEF NotAfter
  <1>8. QED
    BY <1>1, <1>4, <1>5, <1>6, <1>7, OrdinalOrder

(* advance_cycle goes to the next number. *)
LEMMA AdvanceNumber ==
  ASSUME NEW c \in CycleDates
  PROVE  /\ advance_cycle(c) \in CycleDates
         /\ CycleNumber(advance_cycle(c)) = CycleNumber(c) + 1
  <1>1. /\ c \in Dates /\ IsCycleDate(c)
        /\ c.year \in Nat \ {0} /\ c.month \in 1..12
    BY DEF CycleDates, Dates
  <1>2. _month_thirtieth(c.year, c.month).day \in 28..30
    BY <1>1, MonthCycles
  <1>3. advance_cycle(c) \in CycleDates
    BY <1>1, AdvanceCorrect DEF CycleDates
  <1>4. QED
    BY <1>1, <1>2, <1>3
    DEF CycleNumber, advance_cycle, FifteenthOfNextMonth, date, _month_thirtieth

(* previous_cycle goes to the number before. *)
LEMMA PreviousNumber ==
  ASSUME NEW c \in CycleDates, c.year > 1
  PROVE  /\ previous_cycle(c) \in CycleDates
         /\ CycleNumber(previous_cycle(c)) = CycleNumber(c) - 1
         /\ previous_cycle(c).year \in (c.year - 1)..c.year
  <1>1. /\ c \in Dates /\ IsCycleDate(c)
        /\ c.year \in Nat \ {0} /\ c.year - 1 \in Nat \ {0} /\ c.month \in 1..12
    BY DEF CycleDates, Dates
  <1>2. CASE c.day = 15 /\ c.month = 1
    <2> DEFINE p == _month_thirtieth(c.year - 1, 12)
    <2>1. previous_cycle(c) = p
      BY <1>2 DEF previous_cycle
    <2>2. p \in CycleDates /\ p.day \in 28..30
      BY <1>1, MonthCycles DEF CycleDates
    <2>3. p.year = c.year - 1 /\ p.month = 12
      BY DEF date, _month_thirtieth
    <2> HIDE DEF p
    <2>4. CycleNumber(p) = CycleNumber(c) - 1
      BY <1>1, <1>2, <2>2, <2>3 DEF CycleNumber
    <2>5. QED
      BY <1>1, <2>1, <2>2, <2>3, <2>4
  <1>3. CASE c.day = 15 /\ c.month # 1
    <2> DEFINE p == _month_thirtieth(c.year, c.month - 1)
    <2>1. previous_cycle(c) = p /\ c.month - 1 \in 1..12
      BY <1>1, <1>3 DEF previous_cycle
    <2>2. p \in CycleDates /\ p.day \in 28..30
      BY <1>1, <2>1, MonthCycles DEF CycleDates
    <2>3. p.year = c.year /\ p.month = c.month - 1
      BY DEF date, _month_thirtieth
    <2> HIDE DEF p
    <2>4. CycleNumber(p) = CycleNumber(c) - 1
      BY <1>1, <1>3, <2>2, <2>3 DEF CycleNumber
    <2>5. QED
      BY <1>1, <2>1, <2>2, <2>3, <2>4
  <1>4. CASE c.day # 15
    <2> DEFINE p == date(c.year, c.month, 15)
    <2>1. previous_cycle(c) = p
      BY <1>4 DEF previous_cycle
    <2>2. p \in CycleDates
      BY <1>1, MonthCycles DEF CycleDates
    <2>3. p.year = c.year /\ p.month = c.month /\ p.day = 15
      BY DEF date
    <2> HIDE DEF p
    <2>4. CycleNumber(p) = CycleNumber(c) - 1
      BY <1>1, <1>4, <2>3 DEF CycleNumber
    <2>5. QED
      BY <1>1, <2>1, <2>2, <2>3, <2>4
  <1>5. QED
    BY <1>2, <1>3, <1>4

Less == {ss \in Nat \X Nat : ss[1] < ss[2]}

(* No sequence of natural numbers decreases for ever. *)
LEMMA LessWellFounded == IsWellFoundedOn(Less, Nat)
  <1>1. OpToRel(<, Nat) = Less
    BY DEF OpToRel, Less
  <1>2. QED
    BY <1>1, NatLessThanWellFounded

(* A nonempty set of natural numbers has a least element. *)
LEMMA LeastExists ==
  ASSUME NEW S \in SUBSET Nat, S # {}
  PROVE  \E m \in S : \A n \in S : m <= n
  <1>1. PICK m \in S : \A n \in S : <<n, m>> \notin Less
    BY LessWellFounded, WFMin
  <1>2. ASSUME NEW n \in S
        PROVE  m <= n
    <2>1. n \in Nat /\ m \in Nat /\ <<n, m>> \notin Less
      BY <1>1
    <2>2. QED
      BY <2>1 DEF Less
  <1>3. QED
    BY <1>2

(* The cycle date with a number. *)
CycleAt(n) == CHOOSE c \in CycleDates : CycleNumber(c) = n

(* The i-th cycle from a day on. *)
From(start, i) == CycleAt(CycleNumber(next_cycle_date(start)) + i)

(* Every number from that of a cycle date on is that of a cycle date. *)
LEMMA NumbersContinue ==
  ASSUME NEW b \in CycleDates, NEW i \in Nat
  PROVE  \E c \in CycleDates : CycleNumber(c) = CycleNumber(b) + i
  <1> DEFINE Bad == {n \in Nat : ~ \E c \in CycleDates :
                                     CycleNumber(c) = CycleNumber(b) + n}
  <1>1. CycleNumber(b) \in Nat
    BY CycleOrder
  <1>2. Bad = {}
    <2>1. SUFFICES ASSUME Bad # {} PROVE FALSE
      OBVIOUS
    <2>2. PICK n \in Bad : \A m \in Bad : n <= m
      BY <2>1, LeastExists
    <2>3. n # 0
      BY <1>1, <2>2
    <2>4. n \in Nat /\ n - 1 \in Nat /\ ~(n <= n - 1)
      BY <2>3
    <2>5. n - 1 \notin Bad
      <3> HIDE DEF Bad
      <3>1. QED
        BY <2>2, <2>4
    <2>6. PICK c \in CycleDates : CycleNumber(c) = CycleNumber(b) + (n - 1)
      BY <2>4, <2>5
    <2>7. /\ advance_cycle(c) \in CycleDates
          /\ CycleNumber(advance_cycle(c)) = CycleNumber(b) + n
      BY <1>1, <2>4, <2>6, AdvanceNumber
    <2>8. QED
      BY <2>7
  <1>3. QED
    BY <1>2

(* next_cycle_date returns a cycle date. *)
LEMMA NextIsCycle ==
  ASSUME NEW d \in Dates
  PROVE  next_cycle_date(d) \in CycleDates
  BY NextCycleCorrect DEF CycleDates

(* The i-th cycle from a day on has the i-th number from that of the       *)
(* first.                                                                  *)
LEMMA FromFacts ==
  ASSUME NEW start \in Dates, NEW i \in Nat
  PROVE  /\ From(start, i) \in CycleDates
         /\ CycleNumber(From(start, i)) = CycleNumber(next_cycle_date(start)) + i
  <1>1. \E c \in CycleDates :
           CycleNumber(c) = CycleNumber(next_cycle_date(start)) + i
    BY NextIsCycle, NumbersContinue
  <1>2. QED
    BY <1>1 DEF From, CycleAt

(* Advancing from the first cycle goes through them in turn. *)
LEMMA FromAdvances ==
  ASSUME NEW start \in Dates, NEW i \in Nat
  PROVE  From(start, i) = IF i = 0 THEN next_cycle_date(start)
                                   ELSE advance_cycle(From(start, i - 1))
  <1> DEFINE first == next_cycle_date(start)
  <1>1. first \in CycleDates /\ CycleNumber(first) \in Nat
    BY NextIsCycle, CycleOrder
  <1>2. /\ From(start, i) \in CycleDates
        /\ CycleNumber(From(start, i)) = CycleNumber(first) + i
    BY FromFacts
  <1> HIDE DEF first
  <1>3. CASE i = 0
    <2>1. CycleNumber(From(start, i)) = CycleNumber(first)
      BY <1>1, <1>2, <1>3
    <2>2. From(start, i) = first
      BY <1>1, <1>2, <2>1, CycleOrder
    <2>3. QED
      BY <1>3, <2>2 DEF first
  <1>4. CASE i # 0
    <2> DEFINE prior == From(start, i - 1)
    <2>1. i - 1 \in Nat
      BY <1>4
    <2>2. prior \in CycleDates /\ CycleNumber(prior) = CycleNumber(first) + (i - 1)
      BY <2>1, FromFacts DEF first
    <2> HIDE DEF prior
    <2>3. /\ advance_cycle(prior) \in CycleDates
          /\ CycleNumber(advance_cycle(prior)) = CycleNumber(From(start, i))
      BY <1>1, <1>2, <2>1, <2>2, AdvanceNumber
    <2>4. From(start, i) = advance_cycle(prior)
      BY <1>2, <2>3, CycleOrder
    <2>5. QED
      BY <1>4, <2>4 DEF prior
  <1>5. QED
    BY <1>3, <1>4

(* The loop of get_cycle_dates: its cycles, and its list from each of them *)
(* on.                                                                     *)
Nth(start) ==
  CHOOSE nth : nth = [i \in Nat |-> IF i = 0 THEN next_cycle_date(start)
                                             ELSE advance_cycle(nth[i - 1])]

Upto(nth, until) ==
  CHOOSE upto : upto = [i \in Nat |-> IF NotAfter(nth[i], until)
                                      THEN <<nth[i]>> \o upto[i + 1] ELSE <<>>]

(* The loop meets exactly these cycles. *)
LEMMA NthIsFrom ==
  ASSUME NEW start \in Dates
  PROVE  \A i \in Nat : Nth(start)[i] = From(start, i)
  <1> DEFINE Step(f, i) == IF i = 0 THEN next_cycle_date(start)
                                    ELSE advance_cycle(f[i - 1])
             w == [i \in Nat |-> From(start, i)]
             nth == Nth(start)
             Bad == {i \in Nat : nth[i] # From(start, i)}
  <1>1. ASSUME NEW i \in Nat
        PROVE  From(start, i) = Step(w, i)
    <2>1. i # 0 => i - 1 \in Nat
      OBVIOUS
    <2>2. i # 0 => w[i - 1] = From(start, i - 1)
      BY <2>1
    <2> HIDE DEF w
    <2>3. QED
      BY <2>2, FromAdvances
  <1>2. w = [i \in Nat |-> Step(w, i)]
    BY <1>1
  <1> HIDE DEF w
  <1>3. nth = [i \in Nat |-> Step(nth, i)]
    BY <1>2 DEF Nth
  <1> HIDE DEF nth
  <1>4. Bad = {}
    <2>1. SUFFICES ASSUME Bad # {} PROVE FALSE
      OBVIOUS
    <2>2. PICK n \in Bad : \A m \in Bad : n <= m
      BY <2>1, LeastExists
    <2>3. n \in Nat /\ nth[n] = Step(nth, n) /\ nth[n] # From(start, n)
      BY <1>3
    <2>4. n # 0
      BY <2>3, FromAdvances
    <2>5. n - 1 \in Nat /\ ~(n <= n - 1)
      BY <2>3, <2>4
    <2>6. n - 1 \notin Bad
      <3> HIDE DEF Bad
      <3>1. QED
        BY <2>2, <2>5
    <2>7. nth[n - 1] = From(start, n - 1)
      BY <2>5, <2>6
    <2>8. QED
      BY <2>3, <2>4, <2>7, FromAdvances
  <1>5. QED
    BY <1>4 DEF nth

(* From some cycle on they are after the last day of the span. *)
LEMMA SpanEnds ==
  ASSUME NEW start \in Dates, NEW until \in Dates
  PROVE  \E k \in Nat : \A i \in Nat : NotAfter(From(start, i), until) <=> i < k
  <1> DEFINE first == next_cycle_date(start)
             After == {i \in Nat : ~ NotAfter(From(start, i), until)}
  <1>1. first \in CycleDates /\ CycleNumber(first) \in Nat
    BY NextIsCycle, CycleOrder
  <1>2. \A i \in Nat : /\ From(start, i) \in CycleDates
                       /\ CycleNumber(From(start, i)) = CycleNumber(first) + i
    BY FromFacts
  <1>3. until.year \in Nat /\ 24 * (until.year + 2) \in Nat
    BY DEF Dates
  <1> HIDE DEF first
  <1>4. 24 * (until.year + 2) \in After
    <2> DEFINE n == 24 * (until.year + 2)
               c == From(start, n)
    <2>1. n \in Nat
      BY <1>3
    <2>2. c \in CycleDates /\ CycleNumber(c) = CycleNumber(first) + n
      BY <1>2, <2>1
    <2>3. c.year \in Nat /\ c.month \in 1..12
      BY <2>2 DEF CycleDates, Dates
    <2> HIDE DEF c
    <2>4. CycleNumber(c) <= 24 * c.year + 25
      BY <2>3 DEF CycleNumber
    <2>5. CycleNumber(c) \in Nat /\ CycleNumber(c) >= 24 * (until.year + 2)
      BY <1>1, <1>3, <2>2
    <2>6. c.year > until.year
      BY <1>3, <2>3, <2>4, <2>5
    <2>7. ~ NotAfter(c, until)
      BY <1>3, <2>3, <2>6 DEF NotAfter, Before
    <2>8. QED
      BY <2>1, <2>7 DEF c
  <1>5. PICK k \in After : \A i \in After : k <= i
    BY <1>4, LeastExists
  <1>6. ASSUME NEW i \in Nat, k <= i
        PROVE  ~ NotAfter(From(start, i), until)
    <2>1. k \in Nat /\ ~ NotAfter(From(start, k), until)
      BY <1>5
    <2>2. CycleNumber(From(start, k)) <= CycleNumber(From(start, i))
      BY <1>1, <1>2, <1>6, <2>1
    <2>3. toordinal(From(start, k)) <= toordinal(From(start, i))
      BY <1>2, <2>1, <2>2, CycleOrder
    <2>4. From(start, k) \in Dates /\ From(start, i) \in Dates
      BY <1>2, <2>1 DEF CycleDates
    <2>5. ~(toordinal(From(start, k)) <= toordinal(until))
      BY <2>1, <2>4, OrdinalOrder
    <2>6. /\ toordinal(From(start, k)) \in Nat /\ toordinal(From(start, i)) \in Nat
          /\ toordinal(until) \in Nat
      BY <2>4, OrdinalOrder
    <2>7. ~(toordinal(From(start, i)) <= toordinal(until))
      BY <2>3, <2>5, <2>6
    <2>8. QED
      BY <2>4, <2>7, OrdinalOrder
  <1>7. ASSUME NEW i \in Nat, i < k
        PROVE  NotAfter(From(start, i), until)
    <2>1. k \in Nat /\ ~(k <= i)
      BY <1>5, <1>7
    <2>2. i \notin After
      BY <1>5, <2>1
    <2>3. QED
      BY <2>2
  <1>8. k \in Nat
    OBVIOUS
  <1>9. QED
    BY <1>6, <1>7, <1>8

(* get_cycle_dates is the list of the first k cycles from start on, k of   *)
(* them being not after until.                                             *)
Span(k, start, until) ==
  k \in Nat /\ \A i \in Nat : NotAfter(From(start, i), until) <=> i < k

LEMMA UptoLists ==
  ASSUME NEW start \in Dates, NEW until \in Dates, NEW k, Span(k, start, until),
         NEW nth, \A i \in Nat : nth[i] = From(start, i)
  PROVE  LET upto == Upto(nth, until)
         IN  /\ upto[0] \in Seq(CycleDates) /\ Len(upto[0]) = k
             /\ \A j \in 1..k : upto[0][j] = From(start, j - 1)
  <1> DEFINE Step(f, i) == IF NotAfter(nth[i], until)
                           THEN <<nth[i]>> \o f[i + 1] ELSE <<>>
             Rest(i) == [j \in 1..(k - i) |-> nth[i + j - 1]]
             w == [i \in Nat |-> IF i < k THEN Rest(i) ELSE <<>>]
             upto == Upto(nth, until)
             Listed(s, i) == /\ s \in Seq(CycleDates) /\ Len(s) = k - i
                             /\ \A j \in 1..(k - i) : s[j] = nth[i + j - 1]
             Bad == {n \in 0..k : ~ Listed(upto[k - n], k - n)}
  <1>1. k \in Nat /\ \A i \in Nat : NotAfter(nth[i], until) <=> i < k
    BY DEF Span
  <1>2. \A i \in Nat : nth[i] \in CycleDates
    BY FromFacts
  <1>3. ASSUME NEW i \in 0..k
        PROVE  Listed(w[i], i)
    <2>1. CASE i = k
      BY <1>1, <2>1
    <2>2. CASE i < k
      <3>1. w[i] = Rest(i) /\ k - i \in Nat
        BY <1>1, <2>2
      <3>2. Rest(i) \in [1..(k - i) -> CycleDates]
        BY <1>1, <1>2
      <3>3. Rest(i) \in Seq(CycleDates) /\ Len(Rest(i)) = k - i
        BY <3>1, <3>2
      <3>4. QED
        BY <3>1, <3>3
    <2>3. QED
      BY <1>1, <2>1, <2>2
  <1>4. ASSUME NEW f, NEW i \in Nat, i < k, Listed(f[i + 1], i + 1)
        PROVE  Listed(Step(f, i), i)
    <2> DEFINE tail == f[i + 1]
    <2>1. Step(f, i) = <<nth[i]>> \o tail /\ nth[i] \in CycleDates
      BY <1>1, <1>2, <1>4
    <2>2. /\ tail \in Seq(CycleDates) /\ Len(tail) = k - (i + 1)
          /\ \A j \in 1..(k - (i + 1)) : tail[j] = nth[i + j]
      <3>1. \A j \in 1..(k - (i + 1)) : (i + 1) + j - 1 = i + j
        BY <1>1
      <3>2. QED
        BY <1>4, <3>1
    <2>3. <<nth[i]>> \in Seq(CycleDates) /\ Len(<<nth[i]>>) = 1 /\ <<nth[i]>>[1] = nth[i]
      BY <2>1
    <2> HIDE DEF tail
    <2> DEFINE s == <<nth[i]>> \o tail
    <2>4. /\ s \in Seq(CycleDates) /\ Len(s) = 1 + Len(tail)
          /\ \A j \in 1..(1 + Len(tail)) :
               s[j] = IF j <= 1 THEN <<nth[i]>>[j] ELSE tail[j - 1]
      BY <2>2, <2>3, ConcatProperties
    <2> HIDE DEF s
    <2>5. Len(s) = k - i
      BY <1>1, <1>4, <2>2, <2>4
    <2>6. ASSUME NEW j \in 1..(k - i)
          PROVE  s[j] = nth[i + j - 1]
      <3>1. s[j] = IF j <= 1 THEN <<nth[i]>>[j] ELSE tail[j - 1]
        BY <1>1, <2>4, <2>5
      <3>2. CASE j = 1
        BY <2>3, <3>1, <3>2
      <3>3. CASE j # 1
        <4>1. j - 1 \in 1..(k - (i + 1)) /\ ~(j <= 1) /\ i + (j - 1) = i + j - 1
          BY <1>1, <3>3
        <4>2. QED
          BY <2>2, <3>1, <4>1
      <3>4. QED
        BY <3>2, <3>3
    <2>7. QED
      BY <2>1, <2>4, <2>5, <2>6 DEF s
  <1>5. ASSUME NEW i \in Nat
        PROVE  w[i] = Step(w, i)
    <2>1. CASE ~(i < k)
      BY <1>1, <2>1
    <2>2. CASE i < k
      <3>1. i \in 0..k /\ i + 1 \in 0..k
        BY <1>1, <2>2
      <3>2. Listed(w[i], i) /\ Listed(w[i + 1], i + 1)
        BY <1>3, <3>1
      <3> HIDE DEF w
      <3>3. Listed(Step(w, i), i)
        BY <1>4, <2>2, <3>2
      <3> DEFINE a == w[i]
                 b == Step(w, i)
      <3>4. /\ a \in Seq(CycleDates) /\ b \in Seq(CycleDates) /\ Len(a) = Len(b)
            /\ \A j \in 1..Len(a) : a[j] = b[j]
        BY <1>1, <2>2, <3>2, <3>3
      <3> HIDE DEF a, b
      <3>5. a = b
        BY <3>4, SeqEqual
      <3>6. QED
        BY <3>5 DEF a, b
    <2>3. QED
      BY <1>1, <2>1, <2>2
  <1>6. w = [i \in Nat |-> Step(w, i)]
    <2> HIDE DEF Step
    <2>1. QED
      BY <1>5
  <1> HIDE DEF w
  <1>7. upto = [i \in Nat |-> Step(upto, i)]
    BY <1>6 DEF Upto
  <1> HIDE DEF upto
  <1>8. Bad = {}
    <2>1. SUFFICES ASSUME Bad # {} PROVE FALSE
      OBVIOUS
    <2>2. PICK n \in Bad : \A m \in Bad : n <= m
      <3>1. Bad \in SUBSET Nat
        BY <1>1
      <3> HIDE DEF Bad
      <3>2. QED
        BY <2>1, <3>1, LeastExists
    <2>3. n \in 0..k /\ k - n \in Nat /\ ~ Listed(upto[k - n], k - n)
      BY <1>1
    <2> HIDE DEF Listed, Step
    <2>4. upto[k - n] = Step(upto, k - n)
      BY <1>7, <2>3
    <2>5. CASE n = 0
      <3>1. upto[k] = <<>>
        BY <1>1, <2>3, <2>4, <2>5 DEF Step
      <3>2. Listed(<<>>, k)
        BY <1>1 DEF Listed
      <3>3. k - n = k
        BY <1>1, <2>5
      <3>4. QED
        BY <2>3, <3>1, <3>2, <3>3
    <2>6. CASE n # 0
      <3>1. n - 1 \in 0..k /\ ~(n <= n - 1) /\ k - (n - 1) = (k - n) + 1 /\ k - n < k
        BY <1>1, <2>3, <2>6
      <3>2. n - 1 \notin Bad
        <4> HIDE DEF Bad
        <4>1. QED
          BY <2>2, <3>1
      <3>3. Listed(upto[(k - n) + 1], (k - n) + 1)
        BY <3>1, <3>2
      <3>4. Listed(Step(upto, k - n), k - n)
        BY <1>4, <2>3, <3>1, <3>3
      <3>5. QED
        BY <2>3, <2>4, <3>4
    <2>7. QED
      BY <2>5, <2>6
  <1>9. Listed(upto[0], 0)
    <2>1. k \in 0..k /\ k - k = 0
      BY <1>1
    <2> HIDE DEF Listed
    <2>2. QED
      BY <1>8, <2>1
  <1>10. /\ upto[0] \in Seq(CycleDates) /\ Len(upto[0]) = k
         /\ \A j \in 1..k : upto[0][j] = From(start, j - 1)
    <2>1. \A j \in 1..k : j - 1 \in Nat /\ 0 + j - 1 = j - 1
      BY <1>1
    <2>2. QED
      BY SMTT(30), <1>1, <1>9, <2>1
  <1>11. QED
    BY <1>10 DEF upto

(* What get_cycle_dates returns. *)
LEMMA CycleDatesListed ==
  ASSUME NEW start \in Dates, NEW until \in Dates, NEW k, Span(k, start, until)
  PROVE  LET dates == get_cycle_dates(start, until)
         IN  /\ dates \in Seq(CycleDates) /\ Len(dates) = k
             /\ \A j \in 1..k : dates[j] = From(start, j - 1)
  <1>1. get_cycle_dates(start, until) = Upto(Nth(start), until)[0]
    BY DEF get_cycle_dates, Upto, Nth
  <1>2. \A i \in Nat : Nth(start)[i] = From(start, i)
    BY NthIsFrom
  <1>3. QED
    BY <1>1, <1>2, UptoLists

-----------------------------------------------------------------------------
(* The abstract calendar. *)

CycleNumbers == {toordinal(c) : c \in CycleDatesOfYears}

(* The compared cycle dates are all those of the compared years. *)
LEMMA ComparedCycles ==
  /\ CycleDatesOfYears \subseteq CycleDates
  /\ \A c \in CycleDates : c.year \in Years => c \in CycleDatesOfYears
  <1>1. CycleDatesOfYears \subseteq CycleDates
    BY ComparedDates DEF CycleDates
  <1>2. ASSUME NEW c \in CycleDates, c.year \in Years
        PROVE  c \in CycleDatesOfYears
    <2>1. /\ c.month \in 1..12
          /\ \/ c = date(c.year, c.month, 15)
             \/ c = _month_thirtieth(c.year, c.month)
      BY CycleDateCases DEF CycleDates
    <2> DEFINE P(y, m) == {date(y, m, 15), _month_thirtieth(y, m)}
               T == {P(y, m) : y \in Years, m \in 1..12}
    <2>2. c \in P(c.year, c.month)
      BY <2>1
    <2>3. CycleDatesOfYears = UNION T
      BY DEF CycleDatesOfYears
    <2> HIDE DEF P
    <2>4. P(c.year, c.month) \in T
      BY <1>2, <2>1
    <2> HIDE DEF T
    <2>5. QED
      BY <2>2, <2>3, <2>4
  <1>3. QED
    BY <1>1, <1>2

(* The three primitives, where the compared years hold what they return. *)
LEMMA NextAgrees ==
  ASSUME NEW d \in Dates, next_cycle_date(d) \in CycleDatesOfYears
  PROVE  Abstract!next_cycle_date(toordinal(d)) = toordinal(next_cycle_date(d))
  <1> DEFINE x == toordinal(d)
             n == toordinal(next_cycle_date(d))
             S == CycleNumbers
  <1>1. n \in S
    BY DEF CycleNumbers
  <1>2. x <= n /\ x \in Nat /\ n \in Nat
    BY NextCycleCorrect, OrdinalOrder
  <1>3. ASSUME NEW b \in S
        PROVE  b \in Nat /\ (x <= b => n <= b)
    <2>1. PICK c \in CycleDatesOfYears : b = toordinal(c)
      BY DEF CycleNumbers
    <2>2. c \in Dates /\ IsCycleDate(c)
      BY ComparedDates
    <2>3. QED
      BY <2>1, <2>2, NextCycleCorrect, OrdinalOrder
  <1> HIDE DEF x, n, S
  <1> DEFINE r == CHOOSE c \in S : c >= x /\ \A b \in S : b >= x => c <= b
  <1>4. \A b \in S : b >= x => n <= b
    BY <1>2, <1>3
  <1>5. r \in S /\ r >= x /\ \A b \in S : b >= x => r <= b
    BY <1>1, <1>2, <1>4
  <1>6. Abstract!next_cycle_date(x) = r
    BY DEF S, Abstract!next_cycle_date, CycleNumbers
  <1> HIDE DEF r
  <1>7. r = n
    BY <1>1, <1>2, <1>3, <1>4, <1>5
  <1>8. QED
    BY <1>6, <1>7 DEF x, n

LEMMA AdvanceAgrees ==
  ASSUME NEW c \in CycleDates, advance_cycle(c) \in CycleDatesOfYears
  PROVE  Abstract!advance_cycle(toordinal(c)) = toordinal(advance_cycle(c))
  <1> DEFINE x == toordinal(c)
             n == toordinal(advance_cycle(c))
             S == CycleNumbers
  <1>1. n \in S
    BY DEF CycleNumbers
  <1>2. c \in Dates /\ IsCycleDate(c)
    BY DEF CycleDates
  <1>3. x < n /\ x \in Nat /\ n \in Nat
    BY <1>2, AdvanceCorrect, OrdinalOrder
  <1>4. ASSUME NEW b \in S
        PROVE  b \in Nat /\ (x < b => n <= b)
    <2>1. PICK e \in CycleDatesOfYears : b = toordinal(e)
      BY DEF CycleNumbers
    <2>2. e \in Dates /\ IsCycleDate(e)
      BY ComparedDates
    <2>3. QED
      BY <1>2, <2>1, <2>2, AdvanceCorrect, OrdinalOrder
  <1> HIDE DEF x, n, S
  <1> DEFINE r == CHOOSE a \in S : a >= x + 1 /\ \A b \in S : b >= x + 1 => a <= b
  <1>5. n >= x + 1 /\ \A b \in S : b >= x + 1 => n <= b
    BY <1>3, <1>4
  <1>6. r \in S /\ r >= x + 1 /\ \A b \in S : b >= x + 1 => r <= b
    BY <1>1, <1>5
  <1>7. Abstract!advance_cycle(x) = r
    BY DEF S, Abstract!next_cycle_date, Abstract!advance_cycle, CycleNumbers
  <1> HIDE DEF r
  <1>8. r = n
    BY <1>1, <1>3, <1>4, <1>5, <1>6
  <1>9. QED
    BY <1>7, <1>8 DEF x, n

LEMMA PreviousAgrees ==
  ASSUME NEW c \in CycleDates, c.year > 1, previous_cycle(c) \in CycleDatesOfYears
  PROVE  Abstract!previous_cycle(toordinal(c)) = toordinal(previous_cycle(c))
  <1> DEFINE x == toordinal(c)
             p == previous_cycle(c)
             n == toordinal(p)
             S == CycleNumbers
  <1>1. n \in S
    BY DEF CycleNumbers
  <1>2. c \in Dates /\ p \in Dates /\ p \in CycleDates
        /\ CycleNumber(p) = CycleNumber(c) - 1
    BY PreviousNumber DEF CycleDates
  <1> HIDE DEF p
  <1>3. CycleNumber(c) \in Nat /\ CycleNumber(p) < CycleNumber(c)
    BY <1>2, CycleOrder
  <1>4. n < x /\ x \in Nat /\ n \in Nat
    BY <1>2, <1>3, CycleOrder, OrdinalOrder
  <1>5. ASSUME NEW b \in S
        PROVE  b \in Nat /\ (b < x => b <= n)
    <2>1. PICK e \in CycleDatesOfYears : b = toordinal(e)
      BY DEF CycleNumbers
    <2>2. e \in Dates /\ e \in CycleDates
      BY ComparedDates, ComparedCycles
    <2>3. CycleNumber(e) \in Nat /\ (CycleNumber(e) < CycleNumber(c)
                                       => CycleNumber(e) <= CycleNumber(p))
      BY <1>2, <1>3, <2>2, CycleOrder
    <2>4. b \in Nat
      BY <2>1, <2>2, OrdinalOrder
    <2>5. b < x => CycleNumber(e) < CycleNumber(c)
      BY <2>1, <2>2, CycleOrder
    <2>6. CycleNumber(e) <= CycleNumber(p) => b <= n
      BY <1>2, <2>1, <2>2, CycleOrder
    <2>7. QED
      BY <2>3, <2>4, <2>5, <2>6
  <1> HIDE DEF x, n, S
  <1> DEFINE r == CHOOSE a \in S : a < x /\ \A b \in S : b < x => b <= a
  <1>6. \A b \in S : b < x => b <= n
    BY <1>5
  <1>7. r \in S /\ r < x /\ \A b \in S : b < x => b <= r
    BY <1>1, <1>4, <1>6
  <1>8. Abstract!previous_cycle(x) = r
    BY DEF S, Abstract!previous_cycle, CycleNumbers
  <1> HIDE DEF r
  <1>9. r = n
    BY <1>1, <1>4, <1>5, <1>6, <1>7
  <1>10. QED
    BY <1>8, <1>9 DEF x, n, p

(* An increasing list has as many elements as positions. *)
LEMMA IncreasingCount ==
  ASSUME NEW n \in Nat, NEW f, \A i \in 1..n : f[i] \in Nat,
         \A i, j \in 1..n : i < j => f[i] < f[j]
  PROVE  Cardinality({f[i] : i \in 1..n}) = n
  <1> DEFINE S == {f[i] : i \in 1..n}
             g == [i \in 1..n |-> f[i]]
  <1>1. g \in [1..n -> S]
    OBVIOUS
  <1>2. \A i, j \in 1..n : g[i] = g[j] => i = j
    <2>1. SUFFICES ASSUME NEW i \in 1..n, NEW j \in 1..n, f[i] = f[j], i # j
                   PROVE  FALSE
      OBVIOUS
    <2>2. i < j \/ j < i
      BY <2>1
    <2>3. f[i] \in Nat /\ f[j] \in Nat
      OBVIOUS
    <2>4. QED
      BY <2>1, <2>2, <2>3
  <1>3. \A s \in S : \E i \in 1..n : g[i] = s
    OBVIOUS
  <1>4. g \in Bijection(1..n, S)
    <2> HIDE DEF g, S
    <2>1. QED
      BY <1>1, <1>2, <1>3 DEF Bijection, Injection, Surjection, IsInjective
  <1> HIDE DEF g, S
  <1>5. ExistsBijection(1..n, S)
    BY <1>4 DEF ExistsBijection
  <1>6. QED
    BY <1>5, FS_CountingElements DEF S

(* The abstract calendar counts with a Cardinality of its own. *)
LEMMA SameCardinality ==
  ASSUME NEW S
  PROVE  Abstract!Cardinality(S) = Cardinality(S)
  BY DEF Cardinality, Abstract!Cardinality

(* The list of the loop is that of the abstract calendar, if all cycles    *)
(* between the two days are compared.                                      *)
LEMMA ListsAgree ==
  ASSUME NEW start \in Dates, NEW until \in Dates,
         \A c \in CycleDates : NotAfter(start, c) /\ NotAfter(c, until)
                                 => c \in CycleDatesOfYears
  PROVE  LET dates == get_cycle_dates(start, until)
         IN  [i \in DOMAIN dates |-> toordinal(dates[i])]
               = Abstract!get_cycle_dates(toordinal(start), toordinal(until))
  <1> DEFINE dates == get_cycle_dates(start, until)
             first == next_cycle_date(start)
             S == {x \in CycleNumbers : toordinal(start) <= x /\ x <= toordinal(until)}
             ord(j) == toordinal(From(start, j - 1))
  <1>1. PICK k \in Nat : Span(k, start, until)
    BY SpanEnds DEF Span
  <1>2. /\ dates \in Seq(CycleDates) /\ Len(dates) = k
        /\ \A j \in 1..k : dates[j] = From(start, j - 1)
    BY <1>1, CycleDatesListed
  <1>3. first \in CycleDates /\ CycleNumber(first) \in Nat
        /\ NotAfter(start, first)
        /\ \A c \in Dates : IsCycleDate(c) /\ NotAfter(start, c) => NotAfter(first, c)
    BY NextCycleCorrect, NextIsCycle, CycleOrder
  <1> HIDE DEF first
  <1>4. \A i \in Nat : /\ From(start, i) \in CycleDates /\ From(start, i) \in Dates
                       /\ CycleNumber(From(start, i)) = CycleNumber(first) + i
    BY FromFacts DEF first, CycleDates
  <1>5. \A i \in Nat : NotAfter(From(start, i), until) <=> i < k
    BY <1>1 DEF Span
  <1>6. \A j \in 1..k : ord(j) \in Nat
    BY <1>4, OrdinalOrder
  <1>7. \A i, j \in 1..k : i < j => ord(i) < ord(j)
    <2>1. SUFFICES ASSUME NEW i \in 1..k, NEW j \in 1..k, i < j
                   PROVE  ord(i) < ord(j)
      OBVIOUS
    <2>2. i - 1 \in Nat /\ j - 1 \in Nat
      OBVIOUS
    <2>3. CycleNumber(From(start, i - 1)) < CycleNumber(From(start, j - 1))
      BY <1>3, <1>4, <2>1, <2>2
    <2>4. QED
      BY <1>4, <2>2, <2>3, CycleOrder
  <1>8. ASSUME NEW j \in 1..k
        PROVE  ord(j) \in S
    <2> DEFINE c == From(start, j - 1)
    <2>1. j - 1 \in Nat /\ j - 1 < k
      OBVIOUS
    <2>2. /\ c \in CycleDates /\ c \in Dates /\ NotAfter(c, until)
          /\ CycleNumber(first) <= CycleNumber(c)
      BY <1>3, <1>4, <1>5, <2>1
    <2> HIDE DEF c
    <2>3. first \in Dates
      BY <1>3 DEF CycleDates
    <2>4. toordinal(start) <= toordinal(first)
      BY <1>3, <2>3, OrdinalOrder
    <2>5. toordinal(first) <= toordinal(c)
      BY <1>3, <2>2, CycleOrder
    <2>6. toordinal(c) <= toordinal(until)
      BY <2>2, OrdinalOrder
    <2>7. /\ toordinal(start) \in Nat /\ toordinal(first) \in Nat
          /\ toordinal(c) \in Nat
      BY <2>2, <2>3, OrdinalOrder
    <2>8. toordinal(start) <= toordinal(c)
      BY <2>4, <2>5, <2>7
    <2>9. c \in CycleDatesOfYears
      BY <2>2, <2>8, OrdinalOrder
    <2>10. QED
      BY <2>6, <2>8, <2>9 DEF CycleNumbers, c
  <1>9. ASSUME NEW x \in S
        PROVE  \E j \in 1..k : x = ord(j)
    <2>1. PICK c \in CycleDatesOfYears : x = toordinal(c)
      BY DEF CycleNumbers
    <2>2. c \in CycleDates /\ c \in Dates /\ IsCycleDate(c)
      BY ComparedCycles, ComparedDates
    <2>3. NotAfter(start, c) /\ NotAfter(c, until)
      BY <2>1, <2>2, OrdinalOrder
    <2>4. CycleNumber(c) \in Nat /\ CycleNumber(first) <= CycleNumber(c)
      BY <1>3, <2>2, <2>3, CycleOrder
    <2> DEFINE i == CycleNumber(c) - CycleNumber(first)
    <2>5. i \in Nat /\ CycleNumber(first) + i = CycleNumber(c)
      BY <1>3, <2>4
    <2> HIDE DEF i
    <2>6. From(start, i) = c
      BY <1>4, <2>2, <2>5, CycleOrder
    <2>7. i < k
      BY <1>5, <2>3, <2>5, <2>6
    <2>8. i + 1 \in 1..k /\ (i + 1) - 1 = i
      BY <2>5, <2>7
    <2>9. QED
      BY <2>1, <2>6, <2>8
  <1> DEFINE f == [j \in 1..k |-> ord(j)]
             Below(x) == {b \in S : b < x}
             abstract == [i \in 1..Abstract!Cardinality(S) |->
                            CHOOSE x \in S : Abstract!Cardinality(Below(x)) = i - 1]
  <1>10. Abstract!get_cycle_dates(toordinal(start), toordinal(until)) = abstract
    BY DEF Abstract!get_cycle_dates, CycleNumbers
  <1>11. /\ \A i \in 1..k : f[i] \in Nat /\ f[i] \in S
         /\ \A i, j \in 1..k : i < j => f[i] < f[j]
         /\ \A x \in S : \E j \in 1..k : x = f[j]
    BY <1>6, <1>7, <1>8, <1>9
  <1>12. [i \in DOMAIN dates |-> toordinal(dates[i])] = f
    <2>1. DOMAIN dates = 1..k
      BY <1>2
    <2>2. QED
      BY <1>2, <2>1
  <1> HIDE DEF S, f, ord, dates
  <1>13. Abstract!Cardinality(S) = k
    <2>1. S = {f[i] : i \in 1..k}
      BY <1>11
    <2>2. QED
      BY <1>11, <2>1, IncreasingCount, SameCardinality
  <1>14. ASSUME NEW i \in 1..k
         PROVE  Abstract!Cardinality(Below(f[i])) = i - 1
    <2>1. Below(f[i]) = {f[j] : j \in 1..(i - 1)}
      <3>1. ASSUME NEW j \in 1..k
            PROVE  f[j] < f[i] <=> j < i
        <4>1. f[i] \in Nat /\ f[j] \in Nat
          BY <1>11
        <4>2. j = i \/ i < j \/ j < i
          OBVIOUS
        <4>3. i < j => f[i] < f[j]
          BY <1>11
        <4>4. j < i => f[j] < f[i]
          BY <1>11
        <4>5. QED
          BY <4>1, <4>2, <4>3, <4>4
      <3>2. \A j \in 1..(i - 1) : j \in 1..k /\ j < i
        OBVIOUS
      <3>3. \A j \in 1..k : j < i => j \in 1..(i - 1)
        OBVIOUS
      <3>4. QED
        BY <1>11, <3>1, <3>2, <3>3
    <2>2. i - 1 \in Nat /\ \A j \in 1..(i - 1) : j \in 1..k
      OBVIOUS
    <2>3. QED
      BY <1>11, <2>1, <2>2, IncreasingCount, SameCardinality
  <1> HIDE DEF Below
  <1>15. ASSUME NEW i \in 1..k
         PROVE  (CHOOSE x \in S : Abstract!Cardinality(Below(x)) = i - 1) = f[i]
    <2> DEFINE r == CHOOSE x \in S : Abstract!Cardinality(Below(x)) = i - 1
    <2>1. r \in S /\ Abstract!Cardinality(Below(r)) = i - 1
      BY <1>11, <1>14
    <2> HIDE DEF r
    <2>2. PICK j \in 1..k : r = f[j]
      BY <1>11, <2>1
    <2>3. j = i
      BY <1>14, <2>1, <2>2
    <2>4. QED
      BY <2>2, <2>3 DEF r
  <1>16. abstract = f
    <2>1. f = [i \in 1..k |-> f[i]]
      BY DEF f
    <2>2. QED
      BY <1>13, <1>15, <2>1
  <1>17. QED
    BY <1>10, <1>12, <1>16 DEF dates

-----------------------------------------------------------------------------
(* The days of the walk lie between its ends. *)
InWindow == day \in Dates /\ NotAfter(FirstDay, day) /\ NotAfter(day, LastDay)

(* Tomorrow is the least date after a date. *)
LEMMA TomorrowFollows ==
  ASSUME NEW d \in Dates
  PROVE  /\ Tomorrow(d) \in Dates /\ Before(d, Tomorrow(d))
         /\ \A e \in Dates : Before(d, e) => NotAfter(Tomorrow(d), e)
         /\ Tomorrow(d).year \in d.year..(d.year + 1)
  <1>1. d.year \in Nat \ {0} /\ d.month \in 1..12 /\ d.day \in 1..31
        /\ d.day <= monthrange(d.year, d.month)
    BY DEF Dates
  <1>2. Tomorrow(d) \in Dates
    BY TomorrowIsDate
  <1>3. Tomorrow(d).year \in d.year..(d.year + 1)
    BY <1>1 DEF Tomorrow, date, Dates
  <1>4. Before(d, Tomorrow(d))
    BY <1>1 DEF Tomorrow, date, Dates, Before
  <1>5. ASSUME NEW e \in Dates, Before(d, e)
        PROVE  NotAfter(Tomorrow(d), e)
    <2>1. e.year \in Nat \ {0} /\ e.month \in 1..12 /\ e.day \in 1..31
          /\ e.day <= monthrange(e.year, e.month)
          /\ e = [year |-> e.year, month |-> e.month, day |-> e.day]
      BY DEF Dates
    <2>2. d = [year |-> d.year, month |-> d.month, day |-> d.day]
      BY DEF Dates
    <2>3. CASE d.day < monthrange(d.year, d.month)
      <3>1. Tomorrow(d) = [year |-> d.year, month |-> d.month, day |-> d.day + 1]
        BY <2>2, <2>3 DEF Tomorrow
      <3>2. QED
        BY <1>1, <1>5, <2>1, <3>1 DEF NotAfter, Before
    <2>4. CASE ~(d.day < monthrange(d.year, d.month)) /\ d.month < 12
      <3>1. Tomorrow(d) = [year |-> d.year, month |-> d.month + 1, day |-> 1]
        BY <2>4 DEF Tomorrow, date
      <3>2. monthrange(d.year, d.month) \in 28..31
        BY <1>1, MonthLength
      <3>3. ~(e.year = d.year /\ e.month = d.month)
        BY <1>1, <1>5, <2>1, <2>4, <3>2 DEF Before
      <3>4. QED
        BY <1>1, <1>5, <2>1, <3>1, <3>3 DEF NotAfter, Before
    <2>5. CASE ~(d.day < monthrange(d.year, d.month)) /\ ~(d.month < 12)
      <3>1. Tomorrow(d) = [year |-> d.year + 1, month |-> 1, day |-> 1]
        BY <2>5 DEF Tomorrow, date
      <3>2. monthrange(d.year, d.month) \in 28..31
        BY <1>1, MonthLength
      <3>3. ~(e.year = d.year /\ e.month = d.month)
        BY <1>1, <1>5, <2>1, <2>5, <3>2 DEF Before
      <3>4. e.year > d.year
        BY <1>1, <1>5, <2>1, <2>5, <3>3 DEF Before
      <3>5. QED
        BY <1>1, <2>1, <3>1, <3>4 DEF NotAfter, Before
    <2>6. QED
      BY <2>3, <2>4, <2>5
  <1>6. QED
    BY <1>2, <1>3, <1>4, <1>5

(* The walk does not pass LastDay. *)
LEMMA WalkInWindow == YearsCover => (Spec => []InWindow)
  <1> SUFFICES ASSUME YearsCover PROVE Spec => []InWindow
    OBVIOUS
  <1>1. Init => InWindow
    BY WindowAssumption DEF Init, InWindow, YearsCover, NotAfter
  <1>2. InWindow /\ [NextDay]_day => InWindow'
    <2>1. CASE UNCHANGED day
      BY <2>1 DEF InWindow
    <2>2. ASSUME InWindow, NextDay
          PROVE  InWindow'
      <3>1. day \in Dates /\ day' = Tomorrow(day) /\ Before(day, LastDay)
        BY <2>2 DEF InWindow, NextDay, NotAfter
      <3> DEFINE next == Tomorrow(day)
      <3>2. /\ next \in Dates /\ Before(day, next) /\ NotAfter(next, LastDay)
        BY <3>1, TomorrowFollows, WindowAssumption
      <3> HIDE DEF next
      <3>3. NotAfter(FirstDay, next)
        <4>1. toordinal(FirstDay) <= toordinal(day)
          BY <2>2, <3>1, WindowAssumption, OrdinalOrder DEF InWindow
        <4>2. toordinal(day) < toordinal(next)
          BY <3>1, <3>2, OrdinalOrder
        <4>3. /\ toordinal(FirstDay) \in Nat /\ toordinal(day) \in Nat
              /\ toordinal(next) \in Nat
          BY <3>1, <3>2, WindowAssumption, OrdinalOrder
        <4>4. toordinal(FirstDay) <= toordinal(next)
          BY <4>1, <4>2, <4>3
        <4>5. QED
          BY <3>2, <4>4, WindowAssumption, OrdinalOrder
      <3>4. QED
        BY <3>1, <3>2, <3>3 DEF InWindow, next
    <2>3. QED
      BY <2>1, <2>2
  <1>3. QED
    BY <1>1, <1>2, PTL DEF Spec

(* Cycles up to the next year are compared. *)
LEMMA CoveredCycles ==
  ASSUME YearsCover, InWindow,
         NEW c \in CycleDates, c.year \in (day.year - 1)..(day.year + 1)
  PROVE  c \in CycleDatesOfYears
  <1>1. /\ FirstDay.year \in Nat \ {0} /\ LastDay.year \in Nat /\ day.year \in Nat
        /\ c.year \in Nat
    BY WindowAssumption DEF InWindow, CycleDates, Dates
  <1>2. FirstDay.year <= day.year /\ day.year <= LastDay.year
    BY <1>1 DEF InWindow, NotAfter, Before
  <1>3. c.year \in (FirstDay.year - 1)..(LastDay.year + 1)
    BY <1>1, <1>2
  <1>4. c.year \in Years
    BY <1>3 DEF YearsCover
  <1>5. QED
    BY <1>4, ComparedCycles

(* How far ahead the next cycles of a day are. *)
LEMMA NextYears ==
  ASSUME NEW d \in Dates
  PROVE  /\ next_cycle_date(d) \in CycleDates
         /\ next_cycle_date(d).year \in d.year..(d.year + 1)
         /\ d.year \in Nat \ {0}
         /\ next_cycle_date(d) = d => advance_cycle(d).year \in d.year..(d.year + 1)
  <1>1. d.year \in Nat \ {0} /\ d.month \in 1..12 /\ d.day \in 1..31
    BY DEF Dates
  <1>2. next_cycle_date(d) \in CycleDates
    BY NextIsCycle
  <1>3. next_cycle_date(d).year \in d.year..(d.year + 1)
    BY <1>1 DEF next_cycle_date, date, _month_thirtieth, FifteenthOfNextMonth
  <1>4. advance_cycle(d).year \in d.year..(d.year + 1)
    BY <1>1 DEF advance_cycle, date, _month_thirtieth, FifteenthOfNextMonth
  <1>5. QED
    BY <1>1, <1>2, <1>3, <1>4

(* The nearest cycle, ties included. *)
LEMMA NearestAgreesInWindow ==
  ASSUME YearsCover, InWindow
  PROVE  NearestAgrees
  <1> DEFINE nxt == next_cycle_date(day)
             prev == previous_cycle(nxt)
             x == toordinal(day)
  <1>1. day \in Dates /\ day.year > 1
    <2>1. /\ FirstDay.year \in Nat /\ LastDay.year \in Nat /\ day.year \in Nat
          /\ FirstDay.year <= day.year /\ FirstDay.year <= LastDay.year + 2
      BY WindowAssumption DEF InWindow, YearsCover, NotAfter, Before, Dates
    <2>2. FirstDay.year - 1 \in Years
      BY <2>1, WindowAssumption DEF YearsCover, NotAfter, Before, Dates
    <2>3. FirstDay.year - 1 \in Nat \ {0}
      BY <2>2, WindowAssumption
    <2>4. QED
      BY <2>1, <2>3 DEF InWindow
  <1>2. nxt \in CycleDates /\ nxt.year \in day.year..(day.year + 1) /\ day.year \in Nat
    BY <1>1, NextYears
  <1>3. prev \in CycleDates /\ prev.year \in (nxt.year - 1)..nxt.year
    BY <1>1, <1>2, PreviousNumber
  <1>4. nxt \in CycleDatesOfYears /\ prev \in CycleDatesOfYears
    <2>1. /\ nxt.year \in (day.year - 1)..(day.year + 1)
          /\ prev.year \in (day.year - 1)..(day.year + 1)
      BY <1>2, <1>3
    <2> HIDE DEF nxt, prev
    <2>2. QED
      BY <1>2, <1>3, <2>1, CoveredCycles
  <1>5. Abstract!next_cycle_date(x) = toordinal(nxt)
    BY <1>1, <1>4, NextAgrees
  <1>6. Abstract!previous_cycle(toordinal(nxt)) = toordinal(prev)
    BY <1>1, <1>2, <1>4, PreviousAgrees
  <1>7. Abstract!nearest_cycle_date(x)
          = IF x - toordinal(prev) < toordinal(nxt) - x
            THEN toordinal(prev) ELSE toordinal(nxt)
    BY <1>5, <1>6 DEF Abstract!nearest_cycle_date
  <1>8. nearest_cycle_date(day)
          = IF x - toordinal(prev) < toordinal(nxt) - x THEN prev ELSE nxt
    BY DEF nearest_cycle_date
  <1> HIDE DEF nxt, prev, x
  <1>9. toordinal(nearest_cycle_date(day)) = Abstract!nearest_cycle_date(x)
    BY <1>7, <1>8
  <1>10. QED
    BY <1>9 DEF NearestAgrees, x

(* The due date. *)
LEMMA DueDateAgreesInWindow ==
  ASSUME YearsCover, InWindow
  PROVE  DueDateAgrees
  <1> DEFINE nxt == next_cycle_date(day)
             adv == advance_cycle(nxt)
             x == toordinal(day)
  <1>1. day \in Dates
    BY DEF InWindow
  <1>2. /\ nxt \in CycleDates /\ nxt \in Dates /\ day.year \in Nat
        /\ nxt.year \in day.year..(day.year + 1)
        /\ nxt = day => adv.year \in day.year..(day.year + 1)
    BY <1>1, NextYears DEF CycleDates
  <1>3. nxt \in CycleDatesOfYears
    <2>1. nxt.year \in (day.year - 1)..(day.year + 1)
      BY <1>2
    <2> HIDE DEF nxt
    <2>2. QED
      BY <1>2, <2>1, CoveredCycles
  <1>4. nxt = day => Abstract!advance_cycle(toordinal(nxt)) = toordinal(adv)
    <2>1. SUFFICES ASSUME nxt = day
                   PROVE  Abstract!advance_cycle(toordinal(nxt)) = toordinal(adv)
      OBVIOUS
    <2>2. adv \in CycleDates
      BY <1>2, AdvanceNumber
    <2>3. adv.year \in (day.year - 1)..(day.year + 1)
      BY <1>2, <2>1
    <2>4. adv \in CycleDatesOfYears
      <3> HIDE DEF adv
      <3>1. QED
        BY <2>2, <2>3, CoveredCycles
    <2>5. QED
      BY <1>2, <2>4, AdvanceAgrees
  <1>5. Abstract!next_cycle_date(x) = toordinal(nxt)
    BY <1>1, <1>3, NextAgrees
  <1>6. toordinal(nxt) = x <=> nxt = day
    BY <1>1, <1>2, OrdinalOrder
  <1>7. get_next_due_date(day) = IF nxt = day THEN adv ELSE nxt
    BY DEF get_next_due_date
  <1>8. Abstract!get_next_due_date(x)
          = IF toordinal(nxt) = x THEN Abstract!advance_cycle(toordinal(nxt))
            ELSE toordinal(nxt)
    BY <1>5 DEF Abstract!get_next_due_date
  <1> HIDE DEF nxt, adv, x
  <1>9. toordinal(get_next_due_date(day)) = Abstract!get_next_due_date(x)
    BY <1>4, <1>6, <1>7, <1>8
  <1>10. QED
    BY <1>9 DEF DueDateAgrees, x

(* The list that ends within the next year. *)
LEMMA ListAgreesInWindow ==
  ASSUME YearsCover, InWindow,
         NEW until \in Dates, until.year <= day.year + 1
  PROVE  ListAgrees(until)
  <1>1. day \in Dates
    BY DEF InWindow
  <1>2. ASSUME NEW c \in CycleDates, NotAfter(day, c), NotAfter(c, until)
        PROVE  c \in CycleDatesOfYears
    <2>1. c.year \in Nat /\ day.year \in Nat /\ until.year \in Nat
      BY <1>1 DEF CycleDates, Dates
    <2>2. day.year <= c.year /\ c.year <= until.year
      BY <1>2, <2>1 DEF NotAfter, Before
    <2>3. c.year \in (day.year - 1)..(day.year + 1)
      BY <2>1, <2>2
    <2>4. QED
      BY <2>3, CoveredCycles
  <1>3. QED
    BY <1>1, <1>2, ListsAgree DEF ListAgrees

(* The fifth cycle from a day on is a cycle of this year or the next. *)
LEMMA FifthCycle ==
  ASSUME NEW d \in Dates
  PROVE  /\ upcoming_cycle_dates(d, 5)[5] \in Dates
         /\ upcoming_cycle_dates(d, 5)[5].year <= d.year + 1
  <1> DEFINE first == next_cycle_date(d)
             Step(f, i) == IF i = 1 THEN first ELSE advance_cycle(f[i - 1])
             w == [i \in 1..5 |-> From(d, i - 1)]
             nth == CHOOSE f : f = [i \in 1..5 |-> Step(f, i)]
  <1>1. w = [i \in 1..5 |-> Step(w, i)]
    <2>1. ASSUME NEW i \in 1..5
          PROVE  From(d, i - 1) = Step(w, i)
      <3>1. i - 1 \in Nat /\ (i # 1 => i - 1 \in 1..5 /\ w[i - 1] = From(d, (i - 1) - 1))
        OBVIOUS
      <3> HIDE DEF w
      <3>2. QED
        BY <3>1, FromAdvances
    <2>2. QED
      BY <2>1
  <1> HIDE DEF w
  <1>2. nth = [i \in 1..5 |-> Step(nth, i)]
    BY <1>1
  <1>3. upcoming_cycle_dates(d, 5) = nth
    BY DEF upcoming_cycle_dates
  <1> HIDE DEF nth
  <1>4. /\ nth[1] = first /\ nth[2] = advance_cycle(nth[1])
        /\ nth[3] = advance_cycle(nth[2]) /\ nth[4] = advance_cycle(nth[3])
        /\ nth[5] = advance_cycle(nth[4])
    <2>1. \A i \in 1..5 : nth[i] = Step(nth, i)
      BY <1>2
    <2> HIDE DEF first
    <2>2. QED
      BY <2>1
  <1>5. first \in CycleDates /\ d.year \in Nat \ {0} /\ CycleNumber(first) \in Nat
    BY NextYears, CycleOrder
  <1>6. CycleNumber(first) <= 24 * (d.year + 1) + 2
    <2>1. d.year \in Nat /\ d.month \in 1..12 /\ d.day \in 1..31
      BY DEF Dates
    <2>2. CASE d.day <= 15
      <3>1. first = [year |-> d.year, month |-> d.month, day |-> 15]
        BY <2>2 DEF next_cycle_date, date
      <3> HIDE DEF first
      <3>2. QED
        BY <2>1, <3>1 DEF CycleNumber
    <2>3. CASE d.day > 15
      <3>1. \/ first = _month_thirtieth(d.year, d.month)
            \/ first = FifteenthOfNextMonth(d.year, d.month)
        BY <2>1, <2>3 DEF next_cycle_date
      <3>2. \/ first.year = d.year /\ first.month = d.month
            \/ first.year = d.year + 1 /\ first.month = 1 /\ first.day = 15
            \/ first.year = d.year /\ first.month = d.month + 1 /\ d.month # 12
        <4> HIDE DEF first
        <4>1. QED
          BY <3>1 DEF _month_thirtieth, FifteenthOfNextMonth, date
      <3> HIDE DEF first
      <3>3. QED
        BY <2>1, <3>2 DEF CycleNumber
    <2>4. QED
      BY <2>1, <2>2, <2>3
  <1> HIDE DEF first
  <1>7. /\ nth[2] \in CycleDates /\ CycleNumber(nth[2]) = CycleNumber(first) + 1
    BY <1>4, <1>5, AdvanceNumber
  <1>8. /\ nth[3] \in CycleDates /\ CycleNumber(nth[3]) = CycleNumber(first) + 2
    BY <1>4, <1>5, <1>7, AdvanceNumber
  <1>9. /\ nth[4] \in CycleDates /\ CycleNumber(nth[4]) = CycleNumber(first) + 3
    BY <1>4, <1>5, <1>8, AdvanceNumber
  <1>10. /\ nth[5] \in CycleDates /\ CycleNumber(nth[5]) = CycleNumber(first) + 4
    BY <1>4, <1>5, <1>9, AdvanceNumber
  <1>11. nth[5] \in Dates /\ nth[5].year \in Nat /\ nth[5].month \in 1..12
    BY <1>10 DEF CycleDates, Dates
  <1>12. nth[5].year <= d.year + 1
    <2> DEFINE c == nth[5]
    <2>1. CycleNumber(c) <= 24 * (d.year + 1) + 6
      BY <1>5, <1>6, <1>10
    <2>2. CycleNumber(c) >= 24 * c.year + 2
      BY <1>11 DEF CycleNumber
    <2>3. c.year \in Nat /\ d.year \in Nat /\ CycleNumber(c) \in Nat
      BY <1>5, <1>10, <1>11
    <2> HIDE DEF c
    <2>4. c.year <= d.year + 1
      BY <2>1, <2>2, <2>3
    <2>5. QED
      BY <2>4 DEF c
  <1>13. QED
    BY <1>3, <1>11, <1>12

(* On every day of every walk, the functions that step from cycle to cycle *)
(* find what the calendar of the ledger modules says: the nearest cycle,   *)
(* the due date and the list of the cycles between two days.               *)
THEOREM CalendarAlwaysAgrees == YearsCover => (Spec => []CalendarAgrees)
  <1>1. ASSUME YearsCover, InWindow
        PROVE  CalendarAgrees
    <2>1. day \in Dates /\ day.year \in Nat
      BY <1>1 DEF InWindow, Dates
    <2>2. /\ Tomorrow(day) \in Dates /\ Tomorrow(day).year <= day.year + 1
      BY <2>1, TomorrowFollows
    <2>3. ListAgrees(day)
      BY <1>1, <2>1, ListAgreesInWindow
    <2>4. ListAgrees(Tomorrow(day))
      BY <1>1, <2>2, ListAgreesInWindow
    <2>5. ListAgrees(upcoming_cycle_dates(day, 5)[5])
      BY <1>1, <2>1, FifthCycle, ListAgreesInWindow
    <2>6. QED
      BY <1>1, <2>3, <2>4, <2>5, NearestAgreesInWindow, DueDateAgreesInWindow
      DEF CalendarAgrees
  <1>2. SUFFICES ASSUME YearsCover PROVE Spec => []CalendarAgrees
    OBVIOUS
  <1>3. Spec => []InWindow
    BY <1>2, WalkInWindow
  <1>4. InWindow => CalendarAgrees
    BY <1>1, <1>2
  <1>5. QED
    BY <1>3, <1>4, PTL
=============================================================================
