------------------------------- MODULE Cycles -------------------------------
(***************************************************************************)
(* The billing calendar as the rest of the system sees it: days are        *)
(* numbered, and CycleDays are the days on which a billing cycle closes.   *)
(* The operators are the date primitives of interest_engine.py with the    *)
(* month arithmetic abstracted away; module CycleCalendar holds that       *)
(* arithmetic and is checked against this module day by day.               *)
(***************************************************************************)
EXTENDS Integers, SequencesExt, FiniteSetsExt

CONSTANT CycleDays      \* the numbers of the 15ths and "30ths" of the calendar

ASSUME CyclesAssumption == CycleDays \subseteq Nat

(* The first cycle on or after day d (the same day counts). *)
next_cycle_date(d) ==
  CHOOSE c \in CycleDays : c >= d /\ \A b \in CycleDays : b >= d => c <= b

(* The cycle that follows cycle c. *)
advance_cycle(c) == next_cycle_date(c + 1)

(* The cycle before cycle c, as nearest_cycle_date computes it from c. *)
previous_cycle(c) ==
  CHOOSE p \in CycleDays : p < c /\ \A b \in CycleDays : b < c => b <= p

(* The cycle closest to day d; a tie goes to the later one. *)
nearest_cycle_date(d) ==
  LET nxt  == next_cycle_date(d)
      prev == previous_cycle(nxt)
  IN  IF d - prev < nxt - d THEN prev ELSE nxt

(* The cycles from day start to day until, in order. *)
get_cycle_dates(start, until) ==
  LET cycles == {c \in CycleDays : start <= c /\ c <= until}
  IN  [i \in 1..Cardinality(cycles) |->
         CHOOSE c \in cycles : Cardinality({b \in cycles : b < c}) = i - 1]

(* The first cycle strictly after day d. *)
get_next_due_date(d) ==
  LET candidate == next_cycle_date(d)
  IN  IF candidate = d THEN advance_cycle(candidate) ELSE candidate
=============================================================================
