-------------------------- MODULE MCCycleCalendar ---------------------------
(* The walk crosses six year ends, a February of 28 days in a year that is *)
(* divisible by 4 (2100) and one of 29 (2104), and every 31st.             *)
EXTENDS CycleCalendar

MCFirstDay == date(2099, 12, 1)
MCLastDay  == date(2105, 1, 10)
MCYears    == 2098..2106

(* The compared years reach beyond both ends of the walk. *)
ASSUME WindowCovered == YearsCover
=============================================================================
