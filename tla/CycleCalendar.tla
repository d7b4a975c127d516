---------------------------- MODULE CycleCalendar ----------------------------
(***************************************************************************)
(* The calendar arithmetic of interest_engine.py on real dates: a cycle    *)
(* closes on the 15th and on the 30th of every month, or on the last day   *)
(* of a month that is shorter.  A date is a record, as Python's            *)
(* datetime.date is.  The state is one date, which walks from FirstDay to  *)
(* LastDay, so that every property below is evaluated on every day of the  *)
(* window: leap years, Februaries, year ends and 31sts included.           *)
(***************************************************************************)
EXTENDS Integers, Sequences

CONSTANTS FirstDay, LastDay,   \* the window of days that is walked
          Years                \* the years whose cycle dates are compared

VARIABLE day

(* Python's datetime and calendar modules. *)
Leap(y) == y % 4 = 0 /\ (y % 100 # 0 \/ y % 400 = 0)

monthrange(y, m) == CASE m \in {4, 6, 9, 11} -> 30
                      [] m = 2               -> IF Leap(y) THEN 29 ELSE 28
                      [] OTHER               -> 31

date(y, m, d) == [year |-> y, month |-> m, day |-> d]

Dates == {d \in [year : Nat \ {0}, month : 1..12, day : 1..31] :
            d.day <= monthrange(d.year, d.month)}

Before(a, b) == \/ a.year < b.year
                \/ a.year = b.year /\ a.month < b.month
                \/ a.year = b.year /\ a.month = b.month /\ a.day < b.day

NotAfter(a, b) == a = b \/ Before(a, b)

Tomorrow(d) ==
  IF d.day < monthrange(d.year, d.month) THEN [d EXCEPT !.day = @ + 1]
  ELSE IF d.month < 12 THEN date(d.year, d.month + 1, 1)
  ELSE date(d.year + 1, 1, 1)

DaysBeforeMonth(y) ==
  LET days[m \in 1..12] == IF m = 1 THEN 0 ELSE days[m - 1] + monthrange(y, m - 1)
  IN  days

ASSUME WindowAssumption == /\ FirstDay \in Dates /\ LastDay \in Dates
                           /\ Years \subseteq Nat \ {0}

toordinal(d) ==
  LET p == d.year - 1
  IN  365 * p + p \div 4 - p \div 100 + p \div 400
        + DaysBeforeMonth(d.year)[d.month] + d.day

-----------------------------------------------------------------------------
(* interest_engine.py *)

(* Broken variant: every month is taken to have 30 days.                   *)
ThirtiethAlways(y, m) == date(y, m, 30)

_month_thirtieth(y, m) ==
  date(y, m, IF monthrange(y, m) < 30 THEN monthrange(y, m) ELSE 30)

(* Broken variant: December is followed by the January of its own year.    *)
FifteenthSameYear(y, m) == date(y, IF m = 12 THEN 1 ELSE m + 1, 15)

FifteenthOfNextMonth(y, m) ==
  IF m = 12 THEN date(y + 1, 1, 15) ELSE date(y, m + 1, 15)

(* Broken variant: the 30th itself does not count as on or after.          *)
NextAfterThirtieth(d) ==
  LET thirtieth == _month_thirtieth(d.year, d.month)
  IN  IF d.day <= 15 THEN date(d.year, d.month, 15)
      ELSE IF Before(d, thirtieth) THEN thirtieth
      ELSE FifteenthOfNextMonth(d.year, d.month)

next_cycle_date(d) ==
  LET thirtieth == _month_thirtieth(d.year, d.month)
  IN  IF d.day <= 15 THEN date(d.year, d.month, 15)
      ELSE IF NotAfter(d, thirtieth) THEN thirtieth
      ELSE FifteenthOfNextMonth(d.year, d.month)

advance_cycle(c) ==
  IF c.day = 15 THEN _month_thirtieth(c.year, c.month)
  ELSE FifteenthOfNextMonth(c.year, c.month)

previous_cycle(c) ==
  IF c.day = 15
  THEN IF c.month = 1 THEN _month_thirtieth(c.year - 1, 12)
                      ELSE _month_thirtieth(c.year, c.month - 1)
  ELSE date(c.year, c.month, 15)

(* Broken variant: a tie goes to the earlier cycle.                        *)
NearestEarlier(d) ==
  LET nxt  == next_cycle_date(d)
      prev == previous_cycle(nxt)
  IN  IF toordinal(d) - toordinal(prev) <= toordinal(nxt) - toordinal(d)
      THEN prev ELSE nxt

nearest_cycle_date(d) ==
  LET nxt  == next_cycle_date(d)
      prev == previous_cycle(nxt)
  IN  IF toordinal(d) - toordinal(prev) < toordinal(nxt) - toordinal(d)
      THEN prev ELSE nxt

(* Broken variant: the last day is excluded.                               *)
CycleDatesBefore(start, until) ==
  LET nth[i \in Nat] == IF i = 0 THEN next_cycle_date(start)
                                 ELSE advance_cycle(nth[i - 1])
      upto[i \in Nat] == IF Before(nth[i], until)
                         THEN <<nth[i]>> \o upto[i + 1] ELSE <<>>
  IN  upto[0]

(* The loop of get_cycle_dates: the i-th cycle from start on, while it is  *)
(* not after until.                                                        *)
get_cycle_dates(start, until) ==
  LET nth[i \in Nat] == IF i = 0 THEN next_cycle_date(start)
                                 ELSE advance_cycle(nth[i - 1])
      upto[i \in Nat] == IF NotAfter(nth[i], until)
                         THEN <<nth[i]>> \o upto[i + 1] ELSE <<>>
  IN  upto[0]

(* Broken variant: a payment on a cycle date is due again the same day.    *)
DueSameDay(d) == next_cycle_date(d)

get_next_due_date(d) ==
  LET candidate == next_cycle_date(d)
  IN  IF candidate = d THEN advance_cycle(candidate) ELSE candidate

upcoming_cycle_dates(from, count) ==
  LET nth[i \in 1..count] == IF i = 1 THEN next_cycle_date(from)
                                      ELSE advance_cycle(nth[i - 1])
  IN  nth

-----------------------------------------------------------------------------
Init == day = FirstDay

NextDay == day # LastDay /\ day' = Tomorrow(day)

Spec == Init /\ [][NextDay]_day

-----------------------------------------------------------------------------
(* Every date that is handed on exists: datetime.date refuses the others.  *)
TypeOK == {day, next_cycle_date(day), get_next_due_date(day)} \subseteq Dates

IsCycleDate(c) ==
  c.day = 15 \/ c = _month_thirtieth(c.year, c.month)

CycleDatesOfYears ==
  UNION {{date(y, m, 15), _month_thirtieth(y, m)} : y \in Years, m \in 1..12}

(* next_cycle_date returns a cycle date that is not before the day it is   *)
(* given, and no cycle date lies between the two: no cycle is skipped.     *)
NextCycleIsLeast ==
  LET nxt == next_cycle_date(day)
  IN  /\ nxt \in Dates /\ IsCycleDate(nxt) /\ NotAfter(day, nxt)
      /\ \A c \in CycleDatesOfYears : NotAfter(day, c) => NotAfter(nxt, c)

(* advance_cycle, given the cycle a day belongs to, returns the very next  *)
(* cycle: the loop that charges interest once per cycle neither skips nor  *)
(* repeats one, over short months and year ends too.                       *)
AdvanceIsSuccessor ==
  LET c == next_cycle_date(day)
      s == advance_cycle(c)
  IN  /\ s \in Dates /\ IsCycleDate(s) /\ Before(c, s)
      /\ \A b \in CycleDatesOfYears : Before(c, b) => NotAfter(s, b)

(* The cycle dates of the walked window, and those around it, are compared. *)
YearsCover ==
  /\ NotAfter(FirstDay, LastDay)
  /\ \A y \in (FirstDay.year - 1)..(LastDay.year + 1) : y \in Years

(* The abstract calendar the ledger modules are written over. *)
Abstract == INSTANCE Cycles
              WITH CycleDays <- {toordinal(c) : c \in CycleDatesOfYears}

NearestAgrees ==
  toordinal(nearest_cycle_date(day))
    = Abstract!nearest_cycle_date(toordinal(day))

ListAgrees(until) ==
  LET dates == get_cycle_dates(day, until)
  IN  [i \in DOMAIN dates |-> toordinal(dates[i])]
        = Abstract!get_cycle_dates(toordinal(day), toordinal(until))

DueDateAgrees ==
  toordinal(get_next_due_date(day))
    = Abstract!get_next_due_date(toordinal(day))

(* What the code finds by stepping through cycles by hand is what the      *)
(* abstract calendar says: the nearest cycle, ties included, the list of   *)
(* the cycles between two days, both ends included, and the due date,      *)
(* which is strictly after a payment made on a cycle date.                 *)
CalendarAgrees ==
  /\ NearestAgrees
  /\ DueDateAgrees
  /\ \A until \in {day, Tomorrow(day), upcoming_cycle_dates(day, 5)[5]} : ListAgrees(until)
=============================================================================
