------------------------------ MODULE Calendar ------------------------------
(***************************************************************************)
(* The calendar of ECMAScript, Date.UTC and the getUTC methods, on the     *)
(* number of the UTC day since 1970-01-01; and the rule of the leap years, *)
(* which the standard's arithmetic does not mention.                       *)
(***************************************************************************)
EXTENDS Integers

DayFromYear(y) ==
  365 * (y - 1970) + ((y - 1969) \div 4) - ((y - 1901) \div 100) + ((y - 1601) \div 400)

LeapDay(y) == DayFromYear(y + 1) - DayFromYear(y) - 365

\* Days of a year before month m; month 13 is the end of the year.
DaysBefore(y, m) ==
  <<0, 31, 59, 90, 120, 151, 181, 212, 243, 273, 304, 334, 365>>[m]
    + (IF m > 2 THEN LeapDay(y) ELSE 0)

\* Date.UTC(y, m - 1, d): a day beyond the month's end runs on into the next.
DateUTC(y, m, d) == DayFromYear(y) + DaysBefore(y, m) + d - 1

\* YearFromTime: the year that begins on day t or before and does not end before.
YearOf(t) ==
  CHOOSE y \in (1968 + t \div 366)..(1972 + t \div 365) :
    DayFromYear(y) <= t /\ t < DayFromYear(y + 1)
DayInYear(t) == t - DayFromYear(YearOf(t))
MonthOf(t) ==
  CHOOSE m \in 1..12 : /\ DaysBefore(YearOf(t), m) <= DayInYear(t)
                       /\ DayInYear(t) < DaysBefore(YearOf(t), m + 1)
DateOf(t) == DayInYear(t) - DaysBefore(YearOf(t), MonthOf(t)) + 1

MonthOn(t) == <<YearOf(t), MonthOf(t)>>

-----------------------------------------------------------------------------
(* The rule of the Gregorian calendar *)

IsLeapYear(y) == y % 4 = 0 /\ (y % 100 # 0 \/ y % 400 = 0)

DaysIn(y, m) ==
  IF m = 2 THEN IF IsLeapYear(y) THEN 29 ELSE 28
  ELSE IF m \in {4, 6, 9, 11} THEN 30 ELSE 31
=============================================================================
